---- MODULE Spec2Model ----
(***************************************************************************)
(* A model of the BPR random-engine library: the ChaCha20 and AESCTR       *)
(* engines of include/BPR/csprng.hpp, the IEngine state they inherit       *)
(* (include/BPR/engine.hpp) and rotl (include/BPR/utils.hpp).              *)
(*                                                                         *)
(* Representation of the machine integers.  TLC's integers are 32-bit      *)
(* signed, so a uint32_t is the pair <<hi, lo>> of its two 16-bit halves,  *)
(* a uint64_t is the pair <<high word, low word>> of two uint32_t, and a   *)
(* uint8_t is a number in 0..255.  Arrays are tuples; the C++ index i is   *)
(* the tuple index i + 1.  The target is little-endian (x86-64, AArch64):  *)
(* the reinterpret_casts and memcpys between bytes and words are modelled  *)
(* by LoadLE32 / StoreLE32.                                                *)
(***************************************************************************)
EXTENDS Integers, Sequences, FiniteSets, TLC

(***************************************************************************)
(* Bounds of the model.                                                    *)
(***************************************************************************)
\* calls of next()/next512()/next128() made on one engine object
MaxCalls == 3

(***************************************************************************)
(* Fixed-width arithmetic.                                                 *)
(***************************************************************************)
Pow16 == 65536

\* 2^n for n in 0..16
Pow2(n) ==
    <<1, 2, 4, 8, 16, 32, 64, 128, 256, 512, 1024, 2048, 4096, 8192, 16384,
      32768, 65536>>[n + 1]

\* a & b on 4-bit operands: AND4[a + 1][b + 1]
AND4 ==
    <<
       << 0,  0,  0,  0,  0,  0,  0,  0,  0,  0,  0,  0,  0,  0,  0,  0>>,
       << 0,  1,  0,  1,  0,  1,  0,  1,  0,  1,  0,  1,  0,  1,  0,  1>>,
       << 0,  0,  2,  2,  0,  0,  2,  2,  0,  0,  2,  2,  0,  0,  2,  2>>,
       << 0,  1,  2,  3,  0,  1,  2,  3,  0,  1,  2,  3,  0,  1,  2,  3>>,
       << 0,  0,  0,  0,  4,  4,  4,  4,  0,  0,  0,  0,  4,  4,  4,  4>>,
       << 0,  1,  0,  1,  4,  5,  4,  5,  0,  1,  0,  1,  4,  5,  4,  5>>,
       << 0,  0,  2,  2,  4,  4,  6,  6,  0,  0,  2,  2,  4,  4,  6,  6>>,
       << 0,  1,  2,  3,  4,  5,  6,  7,  0,  1,  2,  3,  4,  5,  6,  7>>,
       << 0,  0,  0,  0,  0,  0,  0,  0,  8,  8,  8,  8,  8,  8,  8,  8>>,
       << 0,  1,  0,  1,  0,  1,  0,  1,  8,  9,  8,  9,  8,  9,  8,  9>>,
       << 0,  0,  2,  2,  0,  0,  2,  2,  8,  8, 10, 10,  8,  8, 10, 10>>,
       << 0,  1,  2,  3,  0,  1,  2,  3,  8,  9, 10, 11,  8,  9, 10, 11>>,
       << 0,  0,  0,  0,  4,  4,  4,  4,  8,  8,  8,  8, 12, 12, 12, 12>>,
       << 0,  1,  0,  1,  4,  5,  4,  5,  8,  9,  8,  9, 12, 13, 12, 13>>,
       << 0,  0,  2,  2,  4,  4,  6,  6,  8,  8, 10, 10, 12, 12, 14, 14>>,
       << 0,  1,  2,  3,  4,  5,  6,  7,  8,  9, 10, 11, 12, 13, 14, 15>>
    >>

\* a & b on 16-bit operands
And16(a, b) ==
      AND4[(a \div 4096) + 1][(b \div 4096) + 1] * 4096
    + AND4[((a \div 256) % 16) + 1][((b \div 256) % 16) + 1] * 256
    + AND4[((a \div 16) % 16) + 1][((b \div 16) % 16) + 1] * 16
    + AND4[(a % 16) + 1][(b % 16) + 1]

\* a ^ b and a | b on 16-bit operands
Xor16(a, b) == a + b - 2 * And16(a, b)
Or16(a, b) == a + b - And16(a, b)

Byte == 0..255
Xor8(a, b) == Xor16(a, b)

W32(hi, lo) == <<hi, lo>>
Zero32 == W32(0, 0)
Ones32 == W32(Pow16 - 1, Pow16 - 1)

\* x + y on uint32_t (wraps modulo 2^32)
Add32(x, y) ==
    LET lo == x[2] + y[2]
        hi == x[1] + y[1] + (lo \div Pow16)
    IN  W32(hi % Pow16, lo % Pow16)

\* ++x on uint32_t
Inc32(x) == Add32(x, W32(0, 1))

Xor32(x, y) == W32(Xor16(x[1], y[1]), Xor16(x[2], y[2]))
Or32(x, y) == W32(Or16(x[1], y[1]), Or16(x[2], y[2]))

\* x << k on uint32_t, 0 <= k < 32
Shl32(x, k) ==
    IF k >= 16
    THEN W32((x[2] * Pow2(k - 16)) % Pow16, 0)
    ELSE W32(((x[1] * Pow2(k)) % Pow16) + ((x[2] * Pow2(k)) \div Pow16),
             (x[2] * Pow2(k)) % Pow16)

\* x >> k on uint32_t, 0 <= k < 32
Shr32(x, k) ==
    IF k >= 16
    THEN W32(0, x[1] \div Pow2(k - 16))
    ELSE W32(x[1] \div Pow2(k),
             ((x[1] % Pow2(k)) * Pow2(16 - k)) + (x[2] \div Pow2(k)))

U64(hi, lo) == <<hi, lo>>
Zero64 == U64(Zero32, Zero32)
Xor64(x, y) == U64(Xor32(x[1], y[1]), Xor32(x[2], y[2]))

\* a uint32_t read from / written to four bytes in memory order
LoadLE32(b0, b1, b2, b3) == W32(b3 * 256 + b2, b1 * 256 + b0)
StoreLE32(w) == <<w[2] % 256, w[2] \div 256, w[1] % 256, w[1] \div 256>>

(***************************************************************************)
(* utils.hpp: rotl<uint32_t>.                                              *)
(***************************************************************************)
\* a rotation the wrong way round: "(x >> k) | (x << (32 - k))"
rotl_as_rotr(x, k) == Or32(Shr32(x, k), Shl32(x, 32 - k))

\* a shift in place of the rotation: "x << k", the high bits are lost
rotl_as_shift(x, k) == Shl32(x, k)

rotl(x, k) == Or32(Shl32(x, k), Shr32(x, 32 - k))

\* the shifts one rotl call executes, as <<amount, width of the operand>>
rotl_shifts(k) == {<<k, 32>>, <<32 - k, 32>>}

(***************************************************************************)
(* ChaCha20.  The statements of quarter_round, round and block are         *)
(* functions of the values they read: a function application evaluates its *)
(* argument once, as the statement before it has left it.                  *)
(***************************************************************************)
STATE_SIZE == 16

Word16 == 0..(Pow16 - 1)
Word32 == Word16 \X Word16
\* the four words quarter_round points at, <<*a, *b, *c, *d>>
Quad == [1..4 -> Word32]
\* the content of a std::array<uint32_t, 16>
State16 == [1..STATE_SIZE -> Word32]

EXPAND_32_BYTE_K ==
    << W32(24944, 30821),    \* 0x61707865
       W32(13088, 25710),    \* 0x3320646e
       W32(31074, 11570),    \* 0x79622d32
       W32(27424, 25972) >>  \* 0x6b206574

\* "*x += *y" on the quadruple q
qr_add[q \in Quad, x \in 1..4, y \in 1..4] ==
    [q EXCEPT ![x] = Add32(q[x], q[y])]

\* "*z ^= *x" on the quadruple q
qr_xor[q \in Quad, z \in 1..4, x \in 1..4] ==
    [q EXCEPT ![z] = Xor32(q[z], q[x])]

\* "*z = rotl(*z, k)" on the quadruple q
qr_rotl[q \in Quad, z \in 1..4, k \in 0..32] ==
    [q EXCEPT ![z] = rotl(q[z], k)]

\* one line of quarter_round: "*x += *y; *z ^= *x; *z = rotl(*z, k);"
qr_line[q \in Quad, x \in 1..4, y \in 1..4, z \in 1..4, k \in 0..32] ==
    qr_rotl[qr_xor[qr_add[q, x, y], z, x], z, k]

\* quarter_round(a, b, c, d) on q = <<*a, *b, *c, *d>>
quarter_round[q \in Quad] ==
    qr_line[qr_line[qr_line[qr_line[q, 1, 2, 4, 16], 3, 4, 2, 12], 1, 2, 4, 8],
            3, 4, 2, 7]

quarter_round_shifts ==
    rotl_shifts(16) \cup rotl_shifts(12) \cup rotl_shifts(8) \cup rotl_shifts(7)

\* the array s with the words at the C++ indices a, b, c, d replaced by q
qr_store[s \in State16, a, b, c, d \in 0..15, q \in Quad] ==
    [s EXCEPT ![a + 1] = q[1], ![b + 1] = q[2], ![c + 1] = q[3], ![d + 1] = q[4]]

\* quarter_round(&s[a], &s[b], &s[c], &s[d])
qr_at[s \in State16, a \in 0..15, b \in 0..15, c \in 0..15, d \in 0..15] ==
    qr_store[s, a, b, c, d,
             quarter_round[<<s[a + 1], s[b + 1], s[c + 1], s[d + 1]>>]]

\* the four column quarter-rounds of round()
round_columns[s \in State16] ==
    qr_at[qr_at[qr_at[qr_at[s, 0, 4, 8, 12], 1, 5, 9, 13], 2, 6, 10, 14],
          3, 7, 11, 15]

\* the four diagonal quarter-rounds of round()
round_diagonals[s \in State16] ==
    qr_at[qr_at[qr_at[qr_at[s, 0, 5, 10, 15], 1, 6, 11, 12], 2, 7, 8, 13],
          3, 4, 9, 14]

round[working_state \in State16] ==
    round_diagonals[round_columns[working_state]]

\* the loop "for (i = 0; i < 10; ++i) round(working_state)" of block(), with
\* n iterations left
rounds[working_state \in State16, n \in 0..10] ==
    IF n = 0 THEN working_state ELSE rounds[round[working_state], n - 1]

\* "for (i = 0; i < STATE_SIZE; ++i) working_state[i] += m_state[i]"
add_state[ws \in State16, st \in State16] ==
    << Add32(ws[1], st[1]),   Add32(ws[2], st[2]),
       Add32(ws[3], st[3]),   Add32(ws[4], st[4]),
       Add32(ws[5], st[5]),   Add32(ws[6], st[6]),
       Add32(ws[7], st[7]),   Add32(ws[8], st[8]),
       Add32(ws[9], st[9]),   Add32(ws[10], st[10]),
       Add32(ws[11], st[11]), Add32(ws[12], st[12]),
       Add32(ws[13], st[13]), Add32(ws[14], st[14]),
       Add32(ws[15], st[15]), Add32(ws[16], st[16]) >>

\* block() with the counter incremented before the working copy is taken
block_result_after_increment(st) ==
    LET s == [st EXCEPT ![13] = Inc32(st[13])] IN add_state[rounds[s, 10], s]

\* the value block() returns when m_state = st
block_result(st) == add_state[rounds[st, 10], st]

\* block() with the rounds run on m_state itself instead of a copy
block_state_in_place(st) == [block_result(st) EXCEPT ![13] = Inc32(st[13])]

\* block() without the carry: "m_state[12]++;" alone
block_state_no_carry(st) == [st EXCEPT ![13] = Inc32(st[13])]

\* m_state after block(): "m_state[12]++; if (m_state[12] == 0) m_state[13]++;"
block_state(st) ==
    IF Inc32(st[13]) = Zero32
    THEN [st EXCEPT ![13] = Inc32(st[13]), ![14] = Inc32(st[14])]
    ELSE [st EXCEPT ![13] = Inc32(st[13])]

\* "combined ^= (uint64_t(result[i]) << 32) | result[i + 1]" of next()
combine_step[combined \in Word32 \X Word32, result \in State16, i \in 0..14] ==
    Xor64(combined, U64(result[i + 1], result[i + 2]))

\* the loop of ChaCha20::next() from index i on, combined so far
ChaCha20_combine[result \in State16, i \in 0..16, combined \in Word32 \X Word32] ==
    IF i >= 16 THEN combined
    ELSE ChaCha20_combine[result, i + 2, combine_step[combined, result, i]]

\* next() with the loop started at i = 2: the first pair is left out
ChaCha20_fold_from_2(result) == ChaCha20_combine[result, 2, Zero64]

\* the value ChaCha20::next() returns for the block result
ChaCha20_fold(result) == ChaCha20_combine[result, 0, Zero64]

(***************************************************************************)
(* AESCTR.                                                                 *)
(***************************************************************************)
Nb == 4
Nk == 4
Nr == 10

\* content of a byte of m_expanded_key that no statement has written
\* (the member has no initializer)
Indeterminate == -1

\* SBOX[v] of the source is SBOX[v + 1] here
SBOX ==
    <<
        99, 124, 119, 123, 242, 107, 111, 197,  48,   1, 103,  43, 254, 215, 171, 118,
       202, 130, 201, 125, 250,  89,  71, 240, 173, 212, 162, 175, 156, 164, 114, 192,
       183, 253, 147,  38,  54,  63, 247, 204,  52, 165, 229, 241, 113, 216,  49,  21,
         4, 199,  35, 195,  24, 150,   5, 154,   7,  18, 128, 226, 235,  39, 178, 117,
         9, 131,  44,  26,  27, 110,  90, 160,  82,  59, 214, 179,  41, 227,  47, 132,
        83, 209,   0, 237,  32, 252, 177,  91, 106, 203, 190,  57,  74,  76,  88, 207,
       208, 239, 170, 251,  67,  77,  51, 133,  69, 249,   2, 127,  80,  60, 159, 168,
        81, 163,  64, 143, 146, 157,  56, 245, 188, 182, 218,  33,  16, 255, 243, 210,
       205,  12,  19, 236,  95, 151,  68,  23, 196, 167, 126,  61, 100,  93,  25, 115,
        96, 129,  79, 220,  34,  42, 144, 136,  70, 238, 184,  20, 222,  94,  11, 219,
       224,  50,  58,  10,  73,   6,  36,  92, 194, 211, 172,  98, 145, 149, 228, 121,
       231, 200,  55, 109, 141, 213,  78, 169, 108,  86, 244, 234, 101, 122, 174,   8,
       186, 120,  37,  46,  28, 166, 180, 198, 232, 221, 116,  31,  75, 189, 139, 138,
       112,  62, 181, 102,  72,   3, 246,  14,  97,  53,  87, 185, 134, 193,  29, 158,
       225, 248, 152,  17, 105, 217, 142, 148, 155,  30, 135, 233, 206,  85,  40, 223,
       140, 161, 137,  13, 191, 230,  66, 104,  65, 153,  45,  15, 176,  84, 187,  22
    >>

ZeroBlock == <<0, 0, 0, 0, 0, 0, 0, 0, 0, 0, 0, 0, 0, 0, 0, 0>>

\* the content of a std::array<uint8_t, 16>
Block == [1..16 -> Byte]
\* the content of m_expanded_key, written or not
KeyArray == [1..176 -> {Indeterminate} \cup Byte]

\* the uint32_t at byte offset off of the byte array a
\* (*reinterpret_cast<uint32_t*>(&a[off]))
WordAt(a, off) == LoadLE32(a[off + 1], a[off + 2], a[off + 3], a[off + 4])

\* the byte array a after storing the uint32_t w at byte offset off
PutWord[a \in Block \cup KeyArray, off \in 0..172, w \in Word32] ==
    [a EXCEPT ![off + 1] = StoreLE32(w)[1], ![off + 2] = StoreLE32(w)[2],
              ![off + 3] = StoreLE32(w)[3], ![off + 4] = StoreLE32(w)[4]]

\* the shift amount of "0x01 << ((i / Nk - 1) * 8)" in key_expansion
rcon_shift(i) == ((i \div Nk) - 1) * 8

\* the value of "0x01 << ((i / Nk - 1) * 8)".  The left operand is an int:
\* an amount of 32 or more is undefined; ub is what the build does with it,
\* "zero" (the bit is shifted out) or "wrap" (the hardware masks the amount).
rcon_word(i, ub) ==
    IF rcon_shift(i) < 32 THEN Shl32(W32(0, 1), rcon_shift(i))
    ELSE IF ub = "wrap" THEN Shl32(W32(0, 1), rcon_shift(i) % 32)
    ELSE Zero32

\* "temp = (temp << 8) | (temp >> 24)"
rot_word[temp \in Word32] == Or32(Shl32(temp, 8), Shr32(temp, 24))

\* "for (j = 0; j < 4; ++j) temp_bytes[j] = SBOX[temp_bytes[j]]"
sub_word[temp \in Word32] ==
    LoadLE32(SBOX[StoreLE32(temp)[1] + 1], SBOX[StoreLE32(temp)[2] + 1],
             SBOX[StoreLE32(temp)[3] + 1], SBOX[StoreLE32(temp)[4] + 1])

\* temp at the end of iteration i of the loop of key_expansion
key_expansion_temp[ek \in KeyArray, i \in 4..43, ub \in {"zero", "wrap"}] ==
    IF i % Nk = 0
    THEN Xor32(sub_word[rot_word[WordAt(ek, 4 * (i - 1))]], rcon_word(i, ub))
    ELSE WordAt(ek, 4 * (i - 1))

\* one iteration of the loop of key_expansion
key_expansion_step[ek \in KeyArray, i \in 4..43, ub \in {"zero", "wrap"}] ==
    PutWord[ek, 4 * i,
            Xor32(WordAt(ek, 4 * (i - Nk)), key_expansion_temp[ek, i, ub])]

\* the loop "for (i = Nk; i < last; ++i)" of key_expansion from index i on
key_expansion_loop[ek \in KeyArray, i, last \in 4..44, ub \in {"zero", "wrap"}] ==
    IF i >= last THEN ek
    ELSE key_expansion_loop[key_expansion_step[ek, i, ub], i + 1, last, ub]

\* key_expansion with the loop bound Nb * Nr: the last round key is not written
key_expansion_one_round_short(key, ub) ==
    key_expansion_loop[key \o [j \in 1..160 |-> Indeterminate], Nk,
                       Nb * Nr, ub]

\* m_expanded_key after key_expansion(key)
key_expansion(key, ub) ==
    key_expansion_loop[key \o [j \in 1..160 |-> Indeterminate], Nk,
                       Nb * (Nr + 1), ub]

\* the shifts key_expansion executes, as <<amount, width of the operand>>
key_expansion_shifts ==
    {<<8, 32>>, <<24, 32>>}
    \cup {<<rcon_shift(i), 32>> : i \in {j \in Nk..(Nb * (Nr + 1) - 1) : j % Nk = 0}}

\* "++counter[k]" on the byte array st
inc_word[st \in Block, k \in 0..3] ==
    PutWord[st, 4 * k, Inc32(WordAt(st, 4 * k))]

\* what follows "++counter[k]" in increment_counter: the test "== 0" and the
\* nested increment of counter[k - 1]; counter[0] is incremented untested
inc_carry[st \in Block, k \in 0..3] ==
    IF k > 0 /\ WordAt(st, 4 * k) = Zero32
    THEN inc_carry[inc_word[st, k - 1], k - 1]
    ELSE st

\* increment_counter without the nested tests: "++counter[3];" alone
increment_counter_no_carry(st) == inc_word[st, 3]

\* m_state after increment_counter()
increment_counter(st) == inc_carry[inc_word[st, 3], 3]

\* "state[i] ^= m_expanded_key[off + i]" for i = 0..15
add_round_key[state \in Block, ek \in KeyArray, off \in {0, 16}] ==
    << Xor8(state[1], ek[off + 1]), Xor8(state[2], ek[off + 2]),
       Xor8(state[3], ek[off + 3]), Xor8(state[4], ek[off + 4]),
       Xor8(state[5], ek[off + 5]), Xor8(state[6], ek[off + 6]),
       Xor8(state[7], ek[off + 7]), Xor8(state[8], ek[off + 8]),
       Xor8(state[9], ek[off + 9]), Xor8(state[10], ek[off + 10]),
       Xor8(state[11], ek[off + 11]), Xor8(state[12], ek[off + 12]),
       Xor8(state[13], ek[off + 13]), Xor8(state[14], ek[off + 14]),
       Xor8(state[15], ek[off + 15]), Xor8(state[16], ek[off + 16]) >>

\* "for (auto& byte : state) byte = SBOX[byte]"
sub_bytes[state \in Block] ==
    << SBOX[state[1] + 1], SBOX[state[2] + 1], SBOX[state[3] + 1], SBOX[state[4] + 1],
       SBOX[state[5] + 1], SBOX[state[6] + 1], SBOX[state[7] + 1], SBOX[state[8] + 1],
       SBOX[state[9] + 1], SBOX[state[10] + 1], SBOX[state[11] + 1], SBOX[state[12] + 1],
       SBOX[state[13] + 1], SBOX[state[14] + 1], SBOX[state[15] + 1], SBOX[state[16] + 1] >>

\* the ShiftRows assignments of process_block
shift_rows[temp \in Block] ==
    << temp[1],  temp[6],  temp[11], temp[16],
       temp[5],  temp[10], temp[15], temp[4],
       temp[9],  temp[14], temp[3],  temp[8],
       temp[13], temp[2],  temp[7],  temp[12] >>

\* process_block with "state[1] = temp[5]" replaced by "state[1] = temp[9]":
\* temp[5] is read by no assignment, temp[9] by two
process_block_row_lost(state, ek) ==
    add_round_key[
        [shift_rows[sub_bytes[add_round_key[state, ek, 0]]] EXCEPT
            ![2] = sub_bytes[add_round_key[state, ek, 0]][10]],
        ek, 16]

\* the array process_block(state) leaves in its argument, ek = m_expanded_key
process_block(state, ek) ==
    add_round_key[shift_rows[sub_bytes[add_round_key[state, ek, 0]]], ek, 16]

\* the uint64_t assembled from the 8 bytes at offset off, least significant
\* byte first: "v |= uint64_t(buffer[off + i]) << (i * 8)" for i = 0..7, and
\* the memcpy of next128()
LoadLE64(buffer, off) == U64(WordAt(buffer, off + 4), WordAt(buffer, off))

\* the value AESCTR::next() returns for the processed buffer
AESCTR_fold(buffer) == Xor64(LoadLE64(buffer, 0), LoadLE64(buffer, 8))

\* the value AESCTR::next128() returns for the processed buffer
AESCTR_pair(buffer) == <<LoadLE64(buffer, 0), LoadLE64(buffer, 8)>>

\* the shifts of the assembly loop of AESCTR::next()
AESCTR_next_shifts == {<<i * 8, 64>> : i \in 0..7}

\* the shifts of one ChaCha20::block() call and of the fold of next()
ChaCha20_block_shifts == quarter_round_shifts
ChaCha20_next_shifts == ChaCha20_block_shifts \cup {<<32, 64>>}

(***************************************************************************)
(* Inputs: the keys and nonces callers pass, what std::random_device       *)
(* returns, and what an uninitialized stack buffer holds.                  *)
(***************************************************************************)
ZeroKey8 == <<Zero32, Zero32, Zero32, Zero32, Zero32, Zero32, Zero32, Zero32>>
ZeroNonce2 == <<Zero32, Zero32>>

ChaChaKeys ==
    { ZeroKey8,
      <<W32(770, 256), W32(1798, 1284), W32(2826, 2312), W32(3854, 3340),
        W32(4882, 4368), W32(5910, 5396), W32(6938, 6424), W32(7966, 7452)>> }

ChaChaNonces == { ZeroNonce2, <<W32(0, 9), W32(18944, 74)>> }

AESKeys ==
    { ZeroBlock,
      <<43, 126, 21, 22, 40, 174, 210, 166, 171, 247, 21, 136, 9, 207, 79, 60>> }

\* nonces whose trailing 32-bit words are all-ones, so that one increment
\* carries into word 2, 1, 0 or wraps the whole counter
AESNonces ==
    { ZeroBlock,
      <<0, 1, 2, 3, 4, 5, 6, 7, 8, 9, 10, 11, 255, 255, 255, 255>>,
      <<0, 1, 2, 3, 4, 5, 6, 7, 255, 255, 255, 255, 255, 255, 255, 255>>,
      <<0, 1, 2, 3, 255, 255, 255, 255, 255, 255, 255, 255, 255, 255, 255, 255>>,
      [i \in 1..16 |-> 255] }

\* what successive calls of rd() may return
RdStreams ==
    { [i \in 1..12 |-> W32(0, i)],
      [i \in 1..12 |-> W32(43690, 21845)],
      [i \in 1..12 |-> W32(65535 - i, 4660 + 257 * i)] }

\* what the uninitialized local "buffer" of AESCTR::next()/next128() may hold
StackGarbage == { ZeroBlock, [i \in 1..16 |-> 204] }

\* what "0x01 << amount" with amount >= 32 may do in a build
ShiftOutcomes == {"zero", "wrap"}

Inst == {1, 2}

\* the threads that call into the library
Thread == {1, 2}

(***************************************************************************)
(* State.                                                                  *)
(***************************************************************************)
VARIABLES
    obj,        \* obj[e]: the engine object e (its class, members, history)
    rd_log,     \* the values std::random_device has returned, in call order
    shift_log,  \* the <<amount, width>> of every shift executed so far
    ub_shift,   \* what the build does with an over-wide shift
    frame       \* frame[t]: the locals of the call thread t is executing

vars == <<obj, rd_log, shift_log, ub_shift, frame>>

\* an object that has not been constructed.  ctor is "none", "entropy",
\* "explicit", or "preloaded": an object built by ChaCha20(key, nonce) long
\* ago, whose earlier calls are not recorded in out
NoObject ==
    [class |-> "none", m_state |-> <<>>, m_expanded_key |-> <<>>,
     ctor |-> "none", key |-> <<>>, nonce |-> <<>>, draws |-> 0, out |-> <<>>]

\* a thread that is executing no call of the library
NoFrame == [pc |-> "idle"]

\* IEngine({}): m_state value-initialized to n zero elements
IEngine(zero, n) == [i \in 1..n |-> zero]

(***************************************************************************)
(* ChaCha20 constructors.                                                  *)
(***************************************************************************)
\* the constructor with the nonce drawn before the key
ChaCha20_seeded_nonce_first(rd) ==
    LET s0 == IEngine(Zero32, STATE_SIZE)
        s1 == [s0 EXCEPT ![1] = EXPAND_32_BYTE_K[1], ![2] = EXPAND_32_BYTE_K[2],
                         ![3] = EXPAND_32_BYTE_K[3], ![4] = EXPAND_32_BYTE_K[4]]
        s2 == [s1 EXCEPT ![15] = rd[1], ![16] = rd[2]]
        s3 == [s2 EXCEPT ![5] = rd[3], ![6] = rd[4], ![7] = rd[5], ![8] = rd[6]]
    IN  [m_state |-> s3, draws |-> 6]

\* ChaCha20(std::random_device& rd): rd is the sequence of values the calls
\* of rd() return; the result is m_state and the number of calls made
ChaCha20_seeded(rd) ==
    LET s0 == IEngine(Zero32, STATE_SIZE)
        s1 == [s0 EXCEPT ![1] = EXPAND_32_BYTE_K[1], ![2] = EXPAND_32_BYTE_K[2],
                         ![3] = EXPAND_32_BYTE_K[3], ![4] = EXPAND_32_BYTE_K[4]]
        \* for (i = 0; i < 2; ++i) { m_state[4 + i*2] = rd(); m_state[5 + i*2] = rd(); }
        s2 == [s1 EXCEPT ![4 + 0 * 2 + 1] = rd[1], ![5 + 0 * 2 + 1] = rd[2],
                         ![4 + 1 * 2 + 1] = rd[3], ![5 + 1 * 2 + 1] = rd[4]]
        s3 == [s2 EXCEPT ![13] = Zero32, ![14] = Zero32]
        s4 == [s3 EXCEPT ![15] = rd[5], ![16] = rd[6]]
    IN  [m_state |-> s4, draws |-> 6]

\* the constructor with the key loop stopped at i < 4
ChaCha20_explicit_half_key(key, nonce) ==
    [i \in 1..STATE_SIZE |->
        IF i <= 4 THEN EXPAND_32_BYTE_K[i]
        ELSE IF i <= 8 THEN key[i - 4]
        ELSE IF i = 15 THEN nonce[1]
        ELSE IF i = 16 THEN nonce[2]
        ELSE Zero32]

\* ChaCha20(key, nonce)
ChaCha20_explicit(key, nonce) ==
    LET s0 == IEngine(Zero32, STATE_SIZE)
        s1 == [i \in 1..STATE_SIZE |->
                 IF i <= 4 THEN EXPAND_32_BYTE_K[i]
                 ELSE IF i <= 12 THEN key[i - 4]
                 ELSE s0[i]]
        s2 == [s1 EXCEPT ![13] = Zero32, ![14] = Zero32]
    IN  [s2 EXCEPT ![15] = nonce[1], ![16] = nonce[2]]

ChaCha20_ctor_rd(e) ==
    /\ obj[e].class = "none"
    /\ \E rd \in RdStreams :
         LET r == ChaCha20_seeded(rd)
         IN  /\ obj' = [obj EXCEPT ![e] =
                          [class |-> "ChaCha20", m_state |-> r.m_state,
                           m_expanded_key |-> <<>>, ctor |-> "entropy",
                           key |-> <<>>, nonce |-> <<>>,
                           draws |-> r.draws, out |-> <<>>]]
             /\ rd_log' = rd_log \o SubSeq(rd, 1, r.draws)
    /\ UNCHANGED <<shift_log, ub_shift, frame>>

ChaCha20_ctor_key(e, keys, nonces) ==
    /\ obj[e].class = "none"
    /\ \E key \in keys, nonce \in nonces :
         obj' = [obj EXCEPT ![e] =
                   [class |-> "ChaCha20",
                    m_state |-> ChaCha20_explicit(key, nonce),
                    m_expanded_key |-> <<>>, ctor |-> "explicit",
                    key |-> key, nonce |-> nonce, draws |-> 0, out |-> <<>>]]
    /\ UNCHANGED <<rd_log, shift_log, ub_shift, frame>>

(***************************************************************************)
(* ChaCha20 steps.                                                         *)
(***************************************************************************)
ChaCha20_next(e, max) ==
    /\ obj[e].class = "ChaCha20"
    /\ Len(obj[e].out) < max
    /\ LET result == block_result(obj[e].m_state)
       IN  obj' = [obj EXCEPT
                     ![e].m_state = block_state(obj[e].m_state),
                     ![e].out = Append(@,
                        [op |-> "next", pre |-> obj[e].m_state, arg |-> <<>>,
                         block |-> result,
                         val |-> ChaCha20_fold(result)])]
    /\ shift_log' = shift_log \cup ChaCha20_next_shifts
    /\ UNCHANGED <<rd_log, ub_shift, frame>>

ChaCha20_next512(e, max) ==
    /\ obj[e].class = "ChaCha20"
    /\ Len(obj[e].out) < max
    /\ LET result == block_result(obj[e].m_state)
       IN  obj' = [obj EXCEPT
                     ![e].m_state = block_state(obj[e].m_state),
                     ![e].out = Append(@,
                        [op |-> "next512", pre |-> obj[e].m_state, arg |-> <<>>,
                         block |-> result, val |-> result])]
    /\ shift_log' = shift_log \cup ChaCha20_block_shifts
    /\ UNCHANGED <<rd_log, ub_shift, frame>>

(***************************************************************************)
(* AESCTR constructors.                                                    *)
(***************************************************************************)
\* generate_key(rd) for the four values w the calls of rd() return
generate_key(w) ==
    << w[1][1] \div 256, w[1][1] % 256, w[1][2] \div 256, w[1][2] % 256,
       w[2][1] \div 256, w[2][1] % 256, w[2][2] \div 256, w[2][2] % 256,
       w[3][1] \div 256, w[3][1] % 256, w[3][2] \div 256, w[3][2] % 256,
       w[4][1] \div 256, w[4][1] % 256, w[4][2] \div 256, w[4][2] % 256 >>

generate_key_shifts == {<<24, 32>>, <<16, 32>>, <<8, 32>>}

\* the constructor with the key generated before the counter is filled
AESCTR_seeded_key_first(rd) ==
    [m_state |-> PutWord[PutWord[PutWord[PutWord[IEngine(0, 16), 0, rd[5]],
                                         4, rd[6]], 8, rd[7]], 12, rd[8]],
     key |-> generate_key(SubSeq(rd, 1, 4)), draws |-> 8]

\* AESCTR(std::random_device& rd): rd is the sequence of values the calls of
\* rd() return; the result is m_state, the generated key and the number of
\* calls made
AESCTR_seeded(rd) ==
    LET s0 == IEngine(0, 16)
        s1 == PutWord[s0, 0, rd[1]]
        s2 == PutWord[s1, 4, rd[2]]
        s3 == PutWord[s2, 8, rd[3]]
        s4 == PutWord[s3, 12, rd[4]]
    IN  [m_state |-> s4, key |-> generate_key(SubSeq(rd, 5, 8)), draws |-> 8]

AESCTR_ctor_rd(e) ==
    /\ obj[e].class = "none"
    /\ \E rd \in RdStreams :
         LET r == AESCTR_seeded(rd)
         IN  /\ obj' = [obj EXCEPT ![e] =
                          [class |-> "AESCTR", m_state |-> r.m_state,
                           m_expanded_key |-> key_expansion(r.key, ub_shift),
                           ctor |-> "entropy", key |-> r.key, nonce |-> <<>>,
                           draws |-> r.draws, out |-> <<>>]]
             /\ rd_log' = rd_log \o SubSeq(rd, 1, r.draws)
    /\ shift_log' = shift_log \cup generate_key_shifts \cup key_expansion_shifts
    /\ UNCHANGED <<ub_shift, frame>>

\* AESCTR(key, nonce)
AESCTR_ctor_key(e, keys, nonces) ==
    /\ obj[e].class = "none"
    /\ \E key \in keys, nonce \in nonces :
         obj' = [obj EXCEPT ![e] =
                   [class |-> "AESCTR",
                    m_state |-> [i \in 1..16 |-> nonce[i]],
                    m_expanded_key |-> key_expansion(key, ub_shift),
                    ctor |-> "explicit", key |-> key, nonce |-> nonce,
                    draws |-> 0, out |-> <<>>]]
    /\ shift_log' = shift_log \cup key_expansion_shifts
    /\ UNCHANGED <<rd_log, ub_shift, frame>>

(***************************************************************************)
(* AESCTR steps.  The local array "buffer" is declared without initializer  *)
(* and handed to process_block, which reads it: its content is any value    *)
(* of StackGarbage.                                                         *)
(***************************************************************************)
AESCTR_next(e, max) ==
    /\ obj[e].class = "AESCTR"
    /\ Len(obj[e].out) < max
    /\ \E buffer \in StackGarbage :
         LET processed == process_block(buffer, obj[e].m_expanded_key)
         IN  obj' = [obj EXCEPT
                       ![e].m_state = increment_counter(obj[e].m_state),
                       ![e].out = Append(@,
                          [op |-> "next", pre |-> obj[e].m_state,
                           arg |-> buffer, block |-> processed,
                           val |-> AESCTR_fold(processed)])]
    /\ shift_log' = shift_log \cup AESCTR_next_shifts
    /\ UNCHANGED <<rd_log, ub_shift, frame>>

AESCTR_next128(e, max) ==
    /\ obj[e].class = "AESCTR"
    /\ Len(obj[e].out) < max
    /\ \E buffer \in StackGarbage :
         LET processed == process_block(buffer, obj[e].m_expanded_key)
         IN  obj' = [obj EXCEPT
                       ![e].m_state = increment_counter(obj[e].m_state),
                       ![e].out = Append(@,
                          [op |-> "next128", pre |-> obj[e].m_state,
                           arg |-> buffer, block |-> processed,
                           val |-> AESCTR_pair(processed)])]
    /\ UNCHANGED <<rd_log, shift_log, ub_shift, frame>>

(***************************************************************************)
(* Specifications.                                                         *)
(***************************************************************************)
\* One engine object, of either class, constructed either way and stepped.
Init ==
    /\ obj = [e \in Inst |-> NoObject]
    /\ rd_log = <<>>
    /\ shift_log = {}
    /\ ub_shift \in ShiftOutcomes
    /\ frame = [t \in Thread |-> NoFrame]

Next ==
    \/ ChaCha20_ctor_rd(1)
    \/ ChaCha20_ctor_key(1, ChaChaKeys, ChaChaNonces)
    \/ ChaCha20_next(1, MaxCalls)
    \/ ChaCha20_next512(1, MaxCalls)
    \/ AESCTR_ctor_rd(1)
    \/ AESCTR_ctor_key(1, AESKeys, AESNonces)
    \/ AESCTR_next(1, MaxCalls)
    \/ AESCTR_next128(1, MaxCalls)

Spec == Init /\ [][Next]_vars

(***************************************************************************)
(* A ChaCha20 engine late in its life: the counter words 12 and 13 hold a  *)
(* value that earlier block() calls have left there, close to a carry.     *)
(***************************************************************************)
\* <<word 12, word 13>>
CarryCounters ==
    { <<Zero32, Zero32>>,
      <<W32(65535, 65534), Zero32>>,
      <<Ones32, Zero32>>,
      <<Ones32, W32(0, 65535)>>,
      <<W32(65535, 65534), Ones32>>,
      <<Ones32, Ones32>> }

ChaCha20_preloaded(key, nonce, c) ==
    [class |-> "ChaCha20",
     m_state |-> [ChaCha20_explicit(key, nonce) EXCEPT ![13] = c[1], ![14] = c[2]],
     m_expanded_key |-> <<>>,
     ctor |-> IF c = <<Zero32, Zero32>> THEN "explicit" ELSE "preloaded",
     key |-> key, nonce |-> nonce, draws |-> 0, out |-> <<>>]

InitCarry ==
    /\ \E key \in ChaChaKeys, nonce \in ChaChaNonces, c \in CarryCounters :
         obj = [e \in Inst |->
                  IF e = 1 THEN ChaCha20_preloaded(key, nonce, c) ELSE NoObject]
    /\ rd_log = <<>>
    /\ shift_log = {}
    /\ ub_shift \in ShiftOutcomes
    /\ frame = [t \in Thread |-> NoFrame]

NextCarry ==
    \/ ChaCha20_next(1, MaxCalls)
    \/ ChaCha20_next512(1, MaxCalls)

SpecCarry == InitCarry /\ [][NextCarry]_vars

(***************************************************************************)
(* Two engine objects built by the explicit constructors and stepped by    *)
(* next(), each on its own.                                                *)
(***************************************************************************)
\* calls of next() made on each of the two objects
MaxPairCalls == 2

NextPair ==
    \E e \in Inst :
        \/ ChaCha20_ctor_key(e, ChaChaKeys, {ZeroNonce2})
        \/ ChaCha20_next(e, MaxPairCalls)
        \/ AESCTR_ctor_key(e, AESKeys, {ZeroBlock})
        \/ AESCTR_next(e, MaxPairCalls)

SpecPair == Init /\ [][NextPair]_vars

(***************************************************************************)
(* Properties.                                                             *)
(***************************************************************************)
\* the last entry of the call history of object e
LastOut(e) == obj[e].out[Len(obj[e].out)]

\* object e has just returned from one more call of a generating function
Stepped(e, class) ==
    /\ obj[e].class = class
    /\ obj'[e].class = class
    /\ Len(obj'[e].out) = Len(obj[e].out) + 1

\* the successor modulo 65536^Len(d) of the number whose base-65536 digits,
\* most significant first, are d
DigitsSucc(d) ==
    [i \in 1..Len(d) |->
        IF \A j \in (i + 1)..Len(d) : d[j] = 65535
        THEN (d[i] + 1) % 65536
        ELSE d[i]]

\* the block-function output for the all-zero key, nonce and counter:
\* ade0b876 903df1a0 e56a5d40 28bd8653 b819d2bd 1aed8da0 ccef36a8 c70d778b
\* 7c5941da 8d485751 3fe02477 374ad8b8 f4b8436a 1ca11815 69b687c3 8665eeb2
ChaCha20_ZeroVector ==
    << W32(44512, 47222), W32(36925, 61856), W32(58730, 23872), W32(10429, 34387),
       W32(47129, 53949), W32(6893, 36256), W32(52463, 13992), W32(50957, 30603),
       W32(31833, 16858), W32(36168, 22353), W32(16352, 9335), W32(14154, 55480),
       W32(62648, 17258), W32(7329, 6165), W32(27062, 34755), W32(34405, 61106) >>

\* object e was built by ChaCha20(key, nonce) from the all-zero key and nonce
\* and its first call was next512()
ZeroKeyFirstBlock(e) ==
    /\ obj[e].class = "ChaCha20"
    /\ obj[e].ctor = "explicit"
    /\ obj[e].key = ZeroKey8
    /\ obj[e].nonce = ZeroNonce2
    /\ Len(obj[e].out) >= 1
    /\ obj[e].out[1].op = "next512"
    /\ obj[e].out[1].pre[13] = Zero32
    /\ obj[e].out[1].pre[14] = Zero32

\* C1: a ChaCha20 engine built explicitly from the all-zero key and the
\* all-zero nonce returns from its first next512() call the 16 words of the
\* published block-function test vector for that input.
C1_ZeroKeyTestVector ==
    \A e \in Inst : ZeroKeyFirstBlock(e) => obj[e].out[1].val = ChaCha20_ZeroVector

C1_Witness ==
    /\ ZeroKeyFirstBlock(1)
    /\ obj[1].out[1].val[1] = W32(44512, 47222)
    /\ obj[1].out[1].val[16] = W32(34405, 61106)

\* C2: the 16-byte block an AESCTR call produces is the per-block transform
\* (AddRoundKey, SubBytes, ShiftRows, AddRoundKey) of the counter value held
\* in m_state just before the call, under the expanded key.
C2_BlockOfCounter ==
    \A e \in Inst :
        obj[e].class = "AESCTR" =>
            \A k \in 1..Len(obj[e].out) :
                obj[e].out[k].block =
                    process_block(obj[e].out[k].pre, obj[e].m_expanded_key)

\* objects 1 and 2 are engines of one class built by the explicit
\* constructor from the same key and the same nonce
SameConstruction ==
    /\ obj[1].class # "none"
    /\ obj[1].class = obj[2].class
    /\ obj[1].ctor = "explicit"
    /\ obj[2].ctor = "explicit"
    /\ obj[1].key = obj[2].key
    /\ obj[1].nonce = obj[2].nonce

\* C3: two instances of one cipher engine built explicitly from the same key
\* and nonce return the same value from their k-th next() call, for every k.
C3_SameInputsSameOutputs ==
    SameConstruction =>
        \A k \in 1..Len(obj[1].out) :
            k <= Len(obj[2].out) => obj[1].out[k].val = obj[2].out[k].val

\* the 64-bit counter of a ChaCha20 state, word 13 high and word 12 low, as
\* base-65536 digits, most significant first
ChaCha20_counter(st) == <<st[14][1], st[14][2], st[13][1], st[13][2]>>

C4_StepAddsOne ==
    \A e \in Inst :
        Stepped(e, "ChaCha20") =>
            /\ ChaCha20_counter(obj'[e].m_state)
                 = DigitsSucc(ChaCha20_counter(obj[e].m_state))
            /\ obj'[e].m_state[14] # obj[e].m_state[14]
                 <=> (obj[e].m_state[13] = Ones32 /\ obj'[e].m_state[13] = Zero32)

C4_FreshCountsCalls ==
    \A e \in Inst :
        (obj[e].class = "ChaCha20" /\ obj[e].ctor \in {"explicit", "entropy"}) =>
            ChaCha20_counter(obj[e].m_state) = <<0, 0, 0, Len(obj[e].out)>>

\* C4: every call of ChaCha20 next() or next512() adds exactly 1 modulo 2^64
\* to the counter held in words 13 (high) and 12 (low), word 13 changing
\* exactly when word 12 wraps from 0xFFFFFFFF to 0; on a freshly built engine
\* the counter equals the number of calls made.
C4_CounterAdvance == [][C4_StepAddsOne]_vars /\ []C4_FreshCountsCalls

C4_Witness ==
    /\ obj[1].class = "ChaCha20"
    /\ Len(obj[1].out) >= 1
    /\ LastOut(1).pre[13] = Ones32
    /\ LastOut(1).pre[14] = W32(0, 65535)
    /\ obj[1].m_state[13] = Zero32
    /\ obj[1].m_state[14] = W32(1, 0)

\* the 128-bit counter of an AESCTR state, word 0 most significant and word
\* 3 least, as base-65536 digits, most significant first
AESCTR_counter(st) ==
    << WordAt(st, 0)[1], WordAt(st, 0)[2], WordAt(st, 4)[1], WordAt(st, 4)[2],
       WordAt(st, 8)[1], WordAt(st, 8)[2], WordAt(st, 12)[1], WordAt(st, 12)[2] >>

C5_StepAddsOne ==
    \A e \in Inst :
        Stepped(e, "AESCTR") =>
            AESCTR_counter(obj'[e].m_state)
                = DigitsSucc(AESCTR_counter(obj[e].m_state))

\* C5: every call of AESCTR next() or next128() adds exactly 1 modulo 2^128
\* to the counter read as four 32-bit words, word 3 least significant: an
\* all-ones word 3 carries into word 2, and the all-ones counter wraps to 0.
C5_CounterAdvance == [][C5_StepAddsOne]_vars

C5_Witness ==
    /\ obj[1].class = "AESCTR"
    /\ Len(obj[1].out) >= 2
    /\ obj[1].out[1].pre = [i \in 1..16 |-> 255]
    /\ obj[1].out[2].pre = ZeroBlock
    /\ obj[1].m_state = <<0, 0, 0, 0, 0, 0, 0, 0, 0, 0, 0, 0, 1, 0, 0, 0>>

C6_ScheduleWritten ==
    \A e \in Inst :
        obj[e].class = "AESCTR" =>
            /\ Len(obj[e].m_expanded_key) = 176
            /\ \A i \in 1..176 : obj[e].m_expanded_key[i] \in Byte
            /\ \A i \in 1..16 : obj[e].m_expanded_key[i] = obj[e].key[i]

C6_ScheduleKept ==
    \A e \in Inst :
        obj[e].class = "AESCTR" =>
            obj'[e].m_expanded_key = obj[e].m_expanded_key

\* C6: after AESCTR construction the expanded key has exactly 176 bytes, all
\* written, the first 16 equal to the key, and no call of next() or
\* next128() changes any of them.
C6_Schedule == []C6_ScheduleWritten /\ [][C6_ScheduleKept]_vars

C6_Witness ==
    /\ obj[1].class = "AESCTR"
    /\ obj[1].key # ZeroBlock
    /\ Len(obj[1].out) = MaxCalls
    /\ obj[1].out[1].op = "next"
    /\ obj[1].out[2].op = "next128"
    /\ obj[1].m_expanded_key[176] \in Byte

\* the round constants of the AES key expansion: 01 02 04 08 10 20 40 80 1b 36
AES_Rcon == <<1, 2, 4, 8, 16, 32, 64, 128, 27, 54>>

\* the AES-128 key expansion of FIPS 197 on bytes: schedule word i from the
\* words i - 4 and i - 1 of the schedule ek
AES128_temp[ek \in KeyArray, i \in 4..43] ==
    IF i % 4 = 0
    THEN << Xor8(SBOX[ek[4 * i - 2] + 1], AES_Rcon[i \div 4]),
            SBOX[ek[4 * i - 1] + 1], SBOX[ek[4 * i] + 1], SBOX[ek[4 * i - 3] + 1] >>
    ELSE << ek[4 * i - 3], ek[4 * i - 2], ek[4 * i - 1], ek[4 * i] >>

AES128_step[ek \in KeyArray, i \in 4..43] ==
    [ek EXCEPT ![4 * i + 1] = Xor8(ek[4 * i - 15], AES128_temp[ek, i][1]),
               ![4 * i + 2] = Xor8(ek[4 * i - 14], AES128_temp[ek, i][2]),
               ![4 * i + 3] = Xor8(ek[4 * i - 13], AES128_temp[ek, i][3]),
               ![4 * i + 4] = Xor8(ek[4 * i - 12], AES128_temp[ek, i][4])]

AES128_loop[ek \in KeyArray, i \in 4..44] ==
    IF i >= 44 THEN ek ELSE AES128_loop[AES128_step[ek, i], i + 1]

AES128_KeySchedule(key) == AES128_loop[key \o [j \in 1..160 |-> 0], 4]

\* C7: the AESCTR key schedule is the standard AES-128 key expansion of the
\* key (one-byte rotation b0 b1 b2 b3 -> b1 b2 b3 b0, S-box, round constants
\* 01 02 04 08 10 20 40 80 1b 36 into the first byte).
C7_StandardSchedule ==
    \A e \in Inst :
        obj[e].class = "AESCTR" =>
            obj[e].m_expanded_key = AES128_KeySchedule(obj[e].key)

\* C8: every shift executed by construction, key expansion, block generation
\* and counter increment has an amount smaller than the width of its operand.
C8_ShiftsInRange == \A s \in shift_log : s[1] >= 0 /\ s[1] < s[2]

\* the words of a ChaCha20 state that hold the key (4..11) and the nonce
\* (14..15), as indexes of the tuple
KeyNonceWords == {5, 6, 7, 8, 9, 10, 11, 12, 15, 16}

\* object e is a ChaCha20 engine built by ChaCha20(rd)
EntropySeeded(e) == obj[e].class = "ChaCha20" /\ obj[e].ctor = "entropy"

\* C9: after entropy-seeded construction of a ChaCha20 engine words 0..3 hold
\* the constant, the counter words are 0, and each of the 8 key words and 2
\* nonce words holds a value drawn from the random source, one draw per word.
C9_AllWordsDrawn ==
    \A e \in Inst :
        (EntropySeeded(e) /\ obj[e].out = <<>>) =>
            /\ \A i \in 1..4 : obj[e].m_state[i] = EXPAND_32_BYTE_K[i]
            /\ obj[e].m_state[13] = Zero32
            /\ obj[e].m_state[14] = Zero32
            /\ obj[e].draws = Cardinality(KeyNonceWords)
            /\ \A w \in KeyNonceWords :
                 \E k \in 1..Len(rd_log) : rd_log[k] = obj[e].m_state[w]

PostState(e, k) ==
    IF k < Len(obj[e].out) THEN obj[e].out[k + 1].pre ELSE obj[e].m_state

\* the words of a ChaCha20 state other than the counter words 12 and 13, as
\* indexes of the tuple
FrameWords == (1..16) \ {13, 14}

C11_ConstantKeyNonce ==
    \A e \in Inst :
        obj[e].class = "ChaCha20" =>
            /\ \A i \in 1..4 : obj[e].m_state[i] = EXPAND_32_BYTE_K[i]
            /\ obj[e].ctor = "explicit" =>
                 /\ \A i \in 1..8 : obj[e].m_state[4 + i] = obj[e].key[i]
                 /\ obj[e].m_state[15] = obj[e].nonce[1]
                 /\ obj[e].m_state[16] = obj[e].nonce[2]

C11_StepFrame ==
    \A e \in Inst :
        Stepped(e, "ChaCha20") =>
            \A i \in FrameWords : obj'[e].m_state[i] = obj[e].m_state[i]

\* C11: in every state reached by next()/next512() calls on a ChaCha20
\* engine, words 0..3 hold the constant and words 4..11, 14..15 the key and
\* nonce of the construction; a step changes no word other than 12 and 13.
C11_Frame == []C11_ConstantKeyNonce /\ [][C11_StepFrame]_vars

C11_Witness ==
    /\ obj[1].class = "ChaCha20"
    /\ obj[1].ctor = "explicit"
    /\ obj[1].key # ZeroKey8
    /\ obj[1].nonce # ZeroNonce2
    /\ Len(obj[1].out) = MaxCalls
    /\ obj[1].out[1].op = "next"
    /\ obj[1].out[2].op = "next512"
    /\ obj[1].m_state[13] = W32(0, MaxCalls)
    /\ obj[1].m_state[5] = obj[1].key[1]

(***************************************************************************)
(* Two engine objects of one class built from one key and one nonce, each  *)
(* stepped by either of its generating functions.                          *)
(***************************************************************************)
NextTwin ==
    \E e \in Inst :
        \/ ChaCha20_ctor_key(e, ChaChaKeys \ {ZeroKey8}, ChaChaNonces \ {ZeroNonce2})
        \/ ChaCha20_next(e, MaxPairCalls)
        \/ ChaCha20_next512(e, MaxPairCalls)
        \/ AESCTR_ctor_key(e, AESKeys \ {ZeroBlock}, {[i \in 1..16 |-> 255]})
        \/ AESCTR_next(e, MaxPairCalls)
        \/ AESCTR_next128(e, MaxPairCalls)

SpecTwin == Init /\ [][NextTwin]_vars

\* bit b of the number v
Bit(v, b) == (v \div Pow2(b)) % 2

\* the bitwise XOR of eight 16-bit numbers, from bit b up: a bit of the
\* result is the parity of the eight operands' bits
XorOf8[vs \in [1..8 -> Word16], b \in 0..16] ==
    IF b = 16 THEN 0
    ELSE Pow2(b) * ((Bit(vs[1], b) + Bit(vs[2], b) + Bit(vs[3], b) + Bit(vs[4], b)
                     + Bit(vs[5], b) + Bit(vs[6], b) + Bit(vs[7], b)
                     + Bit(vs[8], b)) % 2)
         + XorOf8[vs, b + 1]

\* the XOR over j = 0..7 of ((w[2j] << 32) | w[2j+1]) for the 16 words w
FoldRule(w) ==
    << << XorOf8[<<w[1][1], w[3][1], w[5][1], w[7][1],
                   w[9][1], w[11][1], w[13][1], w[15][1]>>, 0],
          XorOf8[<<w[1][2], w[3][2], w[5][2], w[7][2],
                   w[9][2], w[11][2], w[13][2], w[15][2]>>, 0] >>,
       << XorOf8[<<w[2][1], w[4][1], w[6][1], w[8][1],
                   w[10][1], w[12][1], w[14][1], w[16][1]>>, 0],
          XorOf8[<<w[2][2], w[4][2], w[6][2], w[8][2],
                   w[10][2], w[12][2], w[14][2], w[16][2]>>, 0] >> >>

\* objects 1 and 2 are of one class, the k-th call of object 1 was f, the
\* k-th call of object 2 was g, and both started from the same m_state
SameStateCalls(k, f, g) ==
    /\ obj[1].class = obj[2].class
    /\ k <= Len(obj[1].out)
    /\ k <= Len(obj[2].out)
    /\ obj[1].out[k].op = f
    /\ obj[2].out[k].op = g
    /\ obj[1].out[k].pre = obj[2].out[k].pre

\* C12: the value ChaCha20 next() returns is the XOR of the eight pairs
\* (w[2j] << 32) | w[2j+1] of the block w that next512() returns from the
\* same state, and both calls leave the same successor state.
C12_NextIsFoldOfBlock ==
    \A k \in 1..MaxPairCalls :
        (obj[1].class = "ChaCha20" /\ SameStateCalls(k, "next", "next512")) =>
            /\ obj[1].out[k].val = FoldRule(obj[2].out[k].val)
            /\ PostState(1, k) = PostState(2, k)

C12_Witness ==
    /\ obj[1].class = "ChaCha20"
    /\ SameStateCalls(1, "next512", "next")
    /\ SameStateCalls(2, "next", "next512")
    /\ obj[1].out[2].val = FoldRule(obj[2].out[2].val)
    /\ obj[1].out[2].val # FoldRule(obj[1].out[1].val)

\* C13: the value AESCTR next() returns is r[0] XOR r[1] for the pair r that
\* next128() returns from the same state, and both calls leave the same
\* successor state.
C13_NextIsXorOfPair ==
    \A k \in 1..MaxPairCalls :
        (obj[1].class = "AESCTR" /\ SameStateCalls(k, "next", "next128")) =>
            /\ obj[1].out[k].val = Xor64(obj[2].out[k].val[1], obj[2].out[k].val[2])
            /\ PostState(1, k) = PostState(2, k)

(***************************************************************************)
(* The generator functions rand and sequence, instantiated with T = int    *)
(* and called on a ChaCha20 or an AESCTR engine.                           *)
(***************************************************************************)
\* the pairs <<min, max>> callers pass, min <= max
RandRanges == { <<0, 9>>, <<0 - 3, 3>>, <<5, 5>>, <<0, 3>> }

\* static_cast<int>(v) of the uint64_t v: its low 32 bits, two's complement
ToInt32(v) ==
    IF v[2][1] >= 32768
    THEN (v[2][1] - 65536) * 65536 + v[2][2]
    ELSE v[2][1] * 65536 + v[2][2]

\* x % range on int operands, range > 0: the remainder of the division that
\* truncates toward zero, so it has the sign of x
int_rem(x, range) ==
    IF x < 0 /\ x % range # 0 THEN (x % range) - range ELSE x % range

\* "T range = max - min + 1; return min + static_cast<T>(e.next()) % range;"
\* for the value v that e.next() returned
rand_range(v, min, max) == min + int_rem(ToInt32(v), max - min + 1)

\* e.next() on the engine object o: the new m_state, the block and the value
\* returned; buffer is the content of the local buffer of AESCTR::next()
Engine_next(o, buffer) ==
    IF o.class = "ChaCha20"
    THEN [m_state |-> block_state(o.m_state),
          arg |-> <<>>,
          block |-> block_result(o.m_state),
          val |-> ChaCha20_fold(block_result(o.m_state))]
    ELSE [m_state |-> increment_counter(o.m_state),
          arg |-> buffer,
          block |-> process_block(buffer, o.m_expanded_key),
          val |-> AESCTR_fold(process_block(buffer, o.m_expanded_key))]

\* the buffers a call of e.next() on the object o may find
Engine_buffers(o) == IF o.class = "AESCTR" THEN StackGarbage ELSE {<<>>}

Engine_next_shifts(o) ==
    IF o.class = "ChaCha20" THEN ChaCha20_next_shifts ELSE AESCTR_next_shifts

\* what one call bpr::rand<int>(e, min, max) on the engine object o adds to
\* the history of o
rand_entry(o, min, max, buffer) ==
    [op |-> "rand", pre |-> o.m_state,
     arg |-> Engine_next(o, buffer).arg,
     block |-> Engine_next(o, buffer).block,
     val |-> Engine_next(o, buffer).val,
     min |-> min, max |-> max,
     ret |-> rand_range(Engine_next(o, buffer).val, min, max)]

\* the engine object o after one call bpr::rand<int>(e, min, max)
rand_object(o, min, max, buffer) ==
    [o EXCEPT !.m_state = Engine_next(o, buffer).m_state,
              !.out = Append(@, rand_entry(o, min, max, buffer))]

\* bpr::rand<int>(e, min, max)
rand(e, calls) ==
    /\ obj[e].class \in {"ChaCha20", "AESCTR"}
    /\ Len(obj[e].out) < calls
    /\ \E r \in RandRanges, buffer \in Engine_buffers(obj[e]) :
         obj' = [obj EXCEPT ![e] = rand_object(obj[e], r[1], r[2], buffer)]
    /\ shift_log' = shift_log \cup Engine_next_shifts(obj[e])
    /\ UNCHANGED <<rd_log, ub_shift, frame>>

NextRand ==
    \/ ChaCha20_ctor_key(1, ChaChaKeys, {ZeroNonce2})
    \/ AESCTR_ctor_key(1, AESKeys \ {ZeroBlock}, {ZeroBlock})
    \/ rand(1, MaxCalls)

SpecRand == Init /\ [][NextRand]_vars

\* C14: rand(e, min, max) with min <= max returns a value v with
\* min <= v <= max and consumes exactly one engine step.
C14_RandInRange ==
    \A e \in Inst :
        \A k \in 1..Len(obj[e].out) :
            obj[e].out[k].op = "rand" =>
                /\ obj[e].out[k].min <= obj[e].out[k].ret
                /\ obj[e].out[k].ret <= obj[e].out[k].max

\* calls of e.next() made inside one call of sequence
MaxDraws == 6

\* the triples <<min, max, count>> callers pass to sequence, min <= max
SeqCalls == { <<0, 3, 10>>, <<0, 3, 2>>, <<0 - 3, 3, 3>>, <<5, 5, 4>> }

\* sequence without the clamp: count is used as the caller passed it
sequence_count_unclamped(min, max, count) == count

\* count after "if (count > size_t(max - min) + 1) count = size_t(max - min + 1);"
sequence_count(min, max, count) ==
    IF count > (max - min) + 1 THEN max - min + 1 ELSE count

\* bpr::sequence<int>(e, min, max, count) up to its loop: thread t enters
sequence_begin(t, e) ==
    /\ frame[t].pc = "idle"
    /\ obj[e].class \in {"ChaCha20", "AESCTR"}
    /\ \E c \in SeqCalls :
         frame' = [frame EXCEPT ![t] =
                     [pc |-> "sequence", e |-> e, min |-> c[1], max |-> c[2],
                      asked |-> c[3],
                      count |-> sequence_count(c[1], c[2], c[3]),
                      seq |-> <<>>, unique_values |-> {}]]
    /\ UNCHANGED <<obj, rd_log, shift_log, ub_shift>>

\* one iteration of "while (seq.size() < count)"
sequence_loop(t, draws) ==
    /\ frame[t].pc = "sequence"
    /\ Len(frame[t].seq) < frame[t].count
    /\ Len(obj[frame[t].e].out) < draws
    /\ \E buffer \in Engine_buffers(obj[frame[t].e]) :
         /\ obj' = [obj EXCEPT ![frame[t].e] =
                      rand_object(@, frame[t].min, frame[t].max, buffer)]
         /\ frame' = [frame EXCEPT
              ![t].unique_values =
                  @ \cup {rand_entry(obj[frame[t].e], frame[t].min,
                                     frame[t].max, buffer).ret},
              ![t].seq =
                  IF rand_entry(obj[frame[t].e], frame[t].min, frame[t].max,
                                buffer).ret \in frame[t].unique_values
                  THEN @
                  ELSE Append(@, rand_entry(obj[frame[t].e], frame[t].min,
                                            frame[t].max, buffer).ret)]
    /\ shift_log' = shift_log \cup Engine_next_shifts(obj[frame[t].e])
    /\ UNCHANGED <<rd_log, ub_shift>>

\* the loop has ended: "return seq;"
sequence_return(t) ==
    /\ frame[t].pc = "sequence"
    /\ Len(frame[t].seq) >= frame[t].count
    /\ frame' = [frame EXCEPT ![t] =
                   [pc |-> "returned", op |-> "sequence", min |-> frame[t].min,
                    max |-> frame[t].max, asked |-> frame[t].asked,
                    ret |-> frame[t].seq]]
    /\ UNCHANGED <<obj, rd_log, shift_log, ub_shift>>

NextSeq ==
    \/ ChaCha20_ctor_key(1, ChaChaKeys, {ZeroNonce2})
    \/ AESCTR_ctor_key(1, AESKeys \ {ZeroBlock}, {ZeroBlock})
    \/ sequence_begin(1, 1)
    \/ sequence_loop(1, MaxDraws)
    \/ sequence_return(1)

SpecSeq == Init /\ [][NextSeq]_vars

\* thread t has returned from sequence
SequenceReturned(t) == frame[t].pc = "returned" /\ frame[t].op = "sequence"

\* C15: whenever sequence(e, min, max, count) returns, the vector holds
\* pairwise distinct values, each within [min, max], and its length is count
\* when count <= max - min + 1 and max - min + 1 otherwise.
C15_SequenceResult ==
    \A t \in Thread :
        SequenceReturned(t) =>
            /\ \A i, j \in 1..Len(frame[t].ret) :
                 i # j => frame[t].ret[i] # frame[t].ret[j]
            /\ \A i \in 1..Len(frame[t].ret) :
                 frame[t].min <= frame[t].ret[i] /\ frame[t].ret[i] <= frame[t].max
            /\ Len(frame[t].ret) =
                 IF frame[t].asked <= frame[t].max - frame[t].min + 1
                 THEN frame[t].asked
                 ELSE frame[t].max - frame[t].min + 1

(***************************************************************************)
(* Two threads calling next()/next512() on one ChaCha20 object without     *)
(* synchronization.  block() is split at its accesses to m_state: the copy *)
(* into working_state, the final addition (which reads m_state again), the *)
(* load and the store of "m_state[12]++", and the test with the carry.     *)
(***************************************************************************)
\* the calls that have begun and not yet returned
Running == {t \in Thread : frame[t].pc \notin {"idle", "returned"}}

\* the calls that have returned
Returned == {t \in Thread : frame[t].pc = "returned"}

\* "working_state[i] += m_state[i]" after the 10 double rounds on the copy
block_add(working_state, st) == add_state[rounds[working_state, 10], st]

\* the store that writes the loaded value back unchanged
block_store_same(st, loaded) == [st EXCEPT ![13] = loaded]

\* the store of "m_state[12]++" for the value loaded
block_store(st, loaded) == [st EXCEPT ![13] = Inc32(loaded)]

\* "if (m_state[12] == 0) m_state[13]++;"
block_carry(st) ==
    IF st[13] = Zero32 THEN [st EXCEPT ![14] = Inc32(st[14])] ELSE st

\* thread t calls op ("next" or "next512") on object e; block() is entered
block_begin(t, e) ==
    /\ frame[t].pc = "idle"
    /\ obj[e].class = "ChaCha20"
    /\ \E op \in {"next", "next512"} :
         frame' = [u \in Thread |->
                     IF u = t
                     THEN [pc |-> "copy", e |-> e, op |-> op,
                           order |-> Cardinality(Returned),
                           overlap |-> Running # {}]
                     ELSE IF u \in Running
                          THEN [frame[u] EXCEPT !.overlap = TRUE]
                          ELSE frame[u]]
    /\ UNCHANGED <<obj, rd_log, shift_log, ub_shift>>

\* "std::array<uint32_t, 16> working_state = m_state;"
block_copy(t) ==
    /\ frame[t].pc = "copy"
    /\ frame' = [frame EXCEPT ![t] =
                   [pc |-> "add", e |-> frame[t].e, op |-> frame[t].op,
                    order |-> frame[t].order, overlap |-> frame[t].overlap,
                    copy |-> obj[frame[t].e].m_state]]
    /\ UNCHANGED <<obj, rd_log, shift_log, ub_shift>>

\* the rounds on working_state and the final addition of m_state
block_rounds(t) ==
    /\ frame[t].pc = "add"
    /\ frame' = [frame EXCEPT ![t] =
                   [pc |-> "load", e |-> frame[t].e, op |-> frame[t].op,
                    order |-> frame[t].order, overlap |-> frame[t].overlap,
                    copy |-> frame[t].copy,
                    working_state |->
                        block_add(frame[t].copy, obj[frame[t].e].m_state)]]
    /\ shift_log' = shift_log \cup ChaCha20_block_shifts
    /\ UNCHANGED <<obj, rd_log, ub_shift>>

\* "m_state[12]++": the load
block_load(t) ==
    /\ frame[t].pc = "load"
    /\ frame' = [frame EXCEPT ![t] =
                   [pc |-> "store", e |-> frame[t].e, op |-> frame[t].op,
                    order |-> frame[t].order, overlap |-> frame[t].overlap,
                    copy |-> frame[t].copy,
                    working_state |-> frame[t].working_state,
                    loaded |-> obj[frame[t].e].m_state[13]]]
    /\ UNCHANGED <<obj, rd_log, shift_log, ub_shift>>

\* "m_state[12]++": the store, then "if (m_state[12] == 0) m_state[13]++;"
\* and the return of next512() or the fold and return of next()
block_finish(t) ==
    /\ frame[t].pc = "store"
    /\ obj' = [obj EXCEPT
                 ![frame[t].e].m_state =
                     block_carry(block_store(@, frame[t].loaded)),
                 ![frame[t].e].out = Append(@,
                     [op |-> frame[t].op, pre |-> frame[t].copy, arg |-> <<>>,
                      block |-> frame[t].working_state,
                      val |-> IF frame[t].op = "next"
                              THEN ChaCha20_fold(frame[t].working_state)
                              ELSE frame[t].working_state])]
    /\ frame' = [frame EXCEPT ![t] =
                   [pc |-> "returned", e |-> frame[t].e, op |-> frame[t].op,
                    order |-> frame[t].order, overlap |-> frame[t].overlap,
                    copy |-> frame[t].copy,
                    block |-> frame[t].working_state]]
    /\ shift_log' = shift_log \cup
                    (IF frame[t].op = "next" THEN ChaCha20_next_shifts ELSE {})
    /\ UNCHANGED <<rd_log, ub_shift>>

NextRace ==
    \/ ChaCha20_ctor_key(1, ChaChaKeys \ {ZeroKey8}, ChaChaNonces)
    \/ \E t \in Thread :
        \/ block_begin(t, 1)
        \/ block_copy(t)
        \/ block_rounds(t)
        \/ block_load(t)
        \/ block_finish(t)

SpecRace == Init /\ [][NextRace]_vars

\* both threads have returned from their call on object 1
BothReturned == Returned = Thread

\* the two calls did not overlap: one returned before the other began
Serialized == BothReturned /\ \A t \in Thread : ~frame[t].overlap

\* C16 (serialized part): when the two calls on one ChaCha20 instance are
\* serialized, the two blocks are computed from consecutive counter values
\* and the counter ends advanced by exactly 2.  (The racing part, an
\* interleaving in which both calls return the same block and the counter
\* ends advanced by less than 2, is the reachable state C16_Witness.)
C16_SerializedCalls ==
    Serialized =>
        /\ \A t \in Thread :
             /\ ChaCha20_counter(frame[t].copy) = <<0, 0, 0, frame[t].order>>
             /\ frame[t].block = block_result(frame[t].copy)
        /\ {frame[t].order : t \in Thread} = {0, 1}
        /\ ChaCha20_counter(obj[1].m_state) = <<0, 0, 0, 2>>

C16_Witness ==
    /\ BothReturned
    /\ frame[1].overlap
    /\ frame[2].overlap
    /\ frame[1].block = frame[2].block
    /\ ChaCha20_counter(obj[1].m_state) = <<0, 0, 0, 1>>

(***************************************************************************)
(* Two engine objects stepped by one thread.  The local buffer of          *)
(* AESCTR::next() is never initialized: in a build that gives it the same  *)
(* stack bytes on every call from one caller, it holds at entry what the   *)
(* previous call of next(), on whichever object, left there.               *)
(***************************************************************************)
\* what thread t finds in the bytes of the local buffer at entry
Stack_buffers(t) ==
    IF frame[t].pc = "idle" /\ "stack" \in DOMAIN frame[t]
    THEN {frame[t].stack}
    ELSE StackGarbage

\* AESCTR::next() called by thread t on object e; on return the bytes of
\* the local buffer keep the processed block
AESCTR_next_stack(t, e, max) ==
    /\ frame[t].pc = "idle"
    /\ obj[e].class = "AESCTR"
    /\ Len(obj[e].out) < max
    /\ \E buffer \in Stack_buffers(t) :
         /\ obj' = [obj EXCEPT
                      ![e].m_state = increment_counter(obj[e].m_state),
                      ![e].out = Append(@,
                         [op |-> "next", pre |-> obj[e].m_state,
                          arg |-> buffer,
                          block |-> process_block(buffer, obj[e].m_expanded_key),
                          val |-> AESCTR_fold(
                             process_block(buffer, obj[e].m_expanded_key))])]
         /\ frame' = [frame EXCEPT ![t] =
                        [pc |-> "idle",
                         stack |-> process_block(buffer, obj[e].m_expanded_key)]]
    /\ shift_log' = shift_log \cup AESCTR_next_shifts
    /\ UNCHANGED <<rd_log, ub_shift>>

NextShare ==
    \E e \in Inst :
        \/ ChaCha20_ctor_key(e, ChaChaKeys, {ZeroNonce2})
        \/ ChaCha20_next(e, MaxPairCalls)
        \/ AESCTR_ctor_key(e, AESKeys, {ZeroBlock})
        \/ AESCTR_next_stack(1, e, MaxPairCalls)

SpecShare == Init /\ [][NextShare]_vars

\* the value the k-th call of next() on object e returns when e is the only
\* object stepped: a ChaCha20 engine computes it from its own state after
\* k - 1 own steps; an AESCTR engine computes it from the buffer its own
\* previous call left (the first call from what the stack held)
AloneValue(e, k) ==
    IF obj[e].class = "ChaCha20"
    THEN ChaCha20_fold(block_result(
             IF k = 1 THEN ChaCha20_explicit(obj[e].key, obj[e].nonce)
             ELSE block_state(obj[e].out[k - 1].pre)))
    ELSE AESCTR_fold(process_block(
             IF k = 1 THEN obj[e].out[1].arg ELSE obj[e].out[k - 1].block,
             obj[e].m_expanded_key))

\* C17 (outputs): under any interleaving of the steps of two engine
\* instances, each instance returns the output sequence it returns when it
\* is stepped alone.
C17_OutputsAsAlone ==
    \A e \in Inst :
        \A k \in 1..Len(obj[e].out) : obj[e].out[k].val = AloneValue(e, k)

\* C17 (frame): a step on one instance leaves the other instance's object
\* unchanged.
C17_StepFrame ==
    [][\A e \in Inst : obj'[e] # obj[e] =>
          \A f \in Inst \ {e} : obj'[f] = obj[f]]_vars

\* object e is a ChaCha20 engine just built by ChaCha20(key, nonce)
ExplicitChaCha20(e) ==
    /\ obj[e].class = "ChaCha20"
    /\ obj[e].ctor = "explicit"
    /\ obj[e].out = <<>>

\* C18: after ChaCha20(key, nonce) the state is: words 0..3 = 0x61707865,
\* 0x3320646e, 0x79622d32, 0x6b206574; word 4 + i = key[i] for i in 0..7;
\* words 12, 13 = 0; word 14 = nonce[0]; word 15 = nonce[1].
C18_ExplicitState ==
    \A e \in Inst :
        ExplicitChaCha20(e) =>
            obj[e].m_state =
                << <<24944, 30821>>, <<13088, 25710>>,
                   <<31074, 11570>>, <<27424, 25972>>,
                   obj[e].key[1], obj[e].key[2], obj[e].key[3], obj[e].key[4],
                   obj[e].key[5], obj[e].key[6], obj[e].key[7], obj[e].key[8],
                   <<0, 0>>, <<0, 0>>, obj[e].nonce[1], obj[e].nonce[2] >>

C18_Witness ==
    /\ ExplicitChaCha20(1)
    /\ obj[1].key # ZeroKey8
    /\ obj[1].nonce[1] # obj[1].nonce[2]
    /\ obj[1].m_state[12] = obj[1].key[8]
    /\ obj[1].m_state[15] = obj[1].nonce[1]

\* object e is an AESCTR engine built by AESCTR(key, nonce)
ExplicitAESCTR(e) == obj[e].class = "AESCTR" /\ obj[e].ctor = "explicit"

\* C19: after AESCTR(key, nonce) the counter equals the nonce byte for
\* byte, the schedule is the expansion of that key, and the first block
\* produced is computed from that initial counter value.
C19_ExplicitAESCTR ==
    \A e \in Inst :
        ExplicitAESCTR(e) =>
            /\ obj[e].out = <<>> => obj[e].m_state = obj[e].nonce
            /\ obj[e].m_expanded_key = key_expansion(obj[e].key, ub_shift)
            /\ obj[e].out # <<>> =>
                 /\ obj[e].out[1].pre = obj[e].nonce
                 /\ obj[e].out[1].block =
                        process_block(obj[e].nonce, obj[e].m_expanded_key)

(***************************************************************************)
(* One engine built explicitly from one of two keys that differ in one     *)
(* bit, and stepped.                                                       *)
(***************************************************************************)
\* bit 0 of word 0 of the ChaCha20 key, bit 0 of byte 0 of the AESCTR key
OneBitChaChaKeys == {ZeroKey8, [ZeroKey8 EXCEPT ![1] = W32(0, 1)]}
OneBitAESKeys == {ZeroBlock, [ZeroBlock EXCEPT ![1] = 1]}

NextOneBit ==
    \/ ChaCha20_ctor_key(1, OneBitChaChaKeys, {ZeroNonce2})
    \/ ChaCha20_next(1, MaxCalls)
    \/ ChaCha20_next512(1, MaxCalls)
    \/ AESCTR_ctor_key(1, OneBitAESKeys, {ZeroBlock})
    \/ AESCTR_next(1, MaxCalls)
    \/ AESCTR_next128(1, MaxCalls)

SpecOneBit == Init /\ [][NextOneBit]_vars

\* C20: the successive next() outputs of an explicitly seeded engine contain
\* no value twice, for each of two keys that differ in one bit (stated for
\* the outputs the model generates, the first MaxCalls of the 2^16).
C20_NoRepeatedOutput ==
    \A e \in Inst :
        obj[e].ctor = "explicit" =>
            \A i, j \in 1..Len(obj[e].out) :
                (i < j /\ obj[e].out[i].op = "next" /\ obj[e].out[j].op = "next")
                    => obj[e].out[i].val # obj[e].out[j].val

(***************************************************************************)
(* The block of the k-th call.                                             *)
(***************************************************************************)
\* the state ChaCha20(key, nonce) builds, with the 64-bit counter set to c
StateOfCounter(key, nonce, c) ==
    << <<24944, 30821>>, <<13088, 25710>>, <<31074, 11570>>, <<27424, 25972>>,
       key[1], key[2], key[3], key[4], key[5], key[6], key[7], key[8],
       W32(0, c), Zero32, nonce[1], nonce[2] >>

\* one double round written out: the column quarter-rounds, then the
\* diagonal ones
DoubleRound(s) ==
    LET c1 == qr_at[s, 0, 4, 8, 12]
        c2 == qr_at[c1, 1, 5, 9, 13]
        c3 == qr_at[c2, 2, 6, 10, 14]
        c4 == qr_at[c3, 3, 7, 11, 15]
        d1 == qr_at[c4, 0, 5, 10, 15]
        d2 == qr_at[d1, 1, 6, 11, 12]
        d3 == qr_at[d2, 2, 7, 8, 13]
    IN  qr_at[d3, 3, 4, 9, 14]

\* n double rounds
DoubleRounds[s \in State16, n \in 0..10] ==
    IF n = 0 THEN s ELSE DoubleRounds[DoubleRound(s), n - 1]

\* the block of the state s: 10 double rounds on a copy, then the pre-round
\* state added word-wise
BlockOf(s) ==
    LET w == DoubleRounds[s, 10]
    IN  [i \in 1..16 |-> Add32(w[i], s[i])]

\* C21: on an explicitly constructed ChaCha20 engine, the block the k-th
\* call returns through next512() is the block of the state whose counter
\* is k - 1 (copy, 10 double rounds of column then diagonal quarter-rounds,
\* pre-round state added modulo 2^32); the increment is made after it and
\* shows only in the state the next call starts from, whose counter is k.
C21_BlockBeforeIncrement ==
    \A e \in Inst :
        (obj[e].class = "ChaCha20" /\ obj[e].ctor = "explicit") =>
            \A k \in 1..Len(obj[e].out) :
                /\ obj[e].out[k].pre =
                       StateOfCounter(obj[e].key, obj[e].nonce, k - 1)
                /\ PostState(e, k) =
                       StateOfCounter(obj[e].key, obj[e].nonce, k)
                /\ obj[e].out[k].op = "next512" =>
                       obj[e].out[k].val =
                           BlockOf(StateOfCounter(obj[e].key, obj[e].nonce,
                                                  k - 1))

C21_Witness ==
    /\ obj[1].class = "ChaCha20"
    /\ obj[1].ctor = "explicit"
    /\ obj[1].key # ZeroKey8
    /\ Len(obj[1].out) = MaxCalls
    /\ \A k \in 1..MaxCalls : obj[1].out[k].op = "next512"
    /\ obj[1].out[1].val # obj[1].out[2].val
    /\ obj[1].out[MaxCalls].val =
           BlockOf(StateOfCounter(obj[1].key, obj[1].nonce, MaxCalls - 1))

(***************************************************************************)
(* quarter_round as a function of its four words.                          *)
(***************************************************************************)
MaxQuarterCalls == 3

\* the words the quadruples handed to quarter_round are made of
QuarterWords == { Zero32, Ones32, W32(32768, 1), W32(4660, 22136) }

\* (0x11111111, 0x01020304, 0x9b8d6f43, 0x01234567)
QuarterTestInput ==
    << W32(4369, 4369), W32(258, 772), W32(39821, 28483), W32(291, 17767) >>

QuarterInputs == [1..4 -> QuarterWords] \cup {QuarterTestInput}

\* thread t calls quarter_round on four words: words of the caller's choice,
\* or the four words its previous call has left
quarter_round_call(t) ==
    /\ frame[t].pc \in {"idle", "quarter_round"}
    /\ frame[t].pc = "quarter_round" => frame[t].calls < MaxQuarterCalls
    /\ \E q \in QuarterInputs \cup
                 (IF frame[t].pc = "quarter_round" THEN {frame[t].val} ELSE {}) :
         frame' = [frame EXCEPT ![t] =
                     [pc |-> "quarter_round", arg |-> q,
                      val |-> quarter_round[q],
                      calls |-> IF frame[t].pc = "quarter_round"
                                THEN frame[t].calls + 1 ELSE 1]]
    /\ shift_log' = shift_log \cup quarter_round_shifts
    /\ UNCHANGED <<obj, rd_log, ub_shift>>

NextQuarter == quarter_round_call(1)

SpecQuarter == Init /\ [][NextQuarter]_vars

\* bit i (0..31) of the 32-bit word x
WordBit(x, i) == IF i >= 16 THEN Bit(x[1], i - 16) ELSE Bit(x[2], i)

\* the number whose bit j is f[base + j], for j in i..15
BitSum[f \in [0..31 -> {0, 1}], base \in {0, 16}, i \in 0..16] ==
    IF i = 16 THEN 0 ELSE f[base + i] * Pow2(i) + BitSum[f, base, i + 1]

\* the 32-bit word whose bit i is f[i]
WordOfBits(f) == W32(BitSum[f, 16, 0], BitSum[f, 0, 0])

\* the cyclic left rotation by k: bit i of the result is bit i - k of x
CyclicRotl(x, k) == WordOfBits([i \in 0..31 |-> WordBit(x, (i + 32 - k) % 32)])

\* the bitwise exclusive or
BitXor(x, y) ==
    WordOfBits([i \in 0..31 |-> (WordBit(x, i) + WordBit(y, i)) % 2])

\* the sum modulo 2^32
AddMod32(x, y) ==
    LET lo == x[2] + y[2]
        hi == x[1] + y[1] + (IF lo >= 65536 THEN 1 ELSE 0)
    IN  << hi % 65536, lo % 65536 >>

\* a+=b, d^=a, d=rotl(d,16); c+=d, b^=c, b=rotl(b,12); a+=b, d^=a,
\* d=rotl(d,8); c+=d, b^=c, b=rotl(b,7)
QuarterRule(q) ==
    LET a1 == AddMod32(q[1], q[2])
        d1 == CyclicRotl(BitXor(q[4], a1), 16)
        c1 == AddMod32(q[3], d1)
        b1 == CyclicRotl(BitXor(q[2], c1), 12)
        a2 == AddMod32(a1, b1)
        d2 == CyclicRotl(BitXor(d1, a2), 8)
        c2 == AddMod32(c1, d2)
        b2 == CyclicRotl(BitXor(b1, c2), 7)
    IN  << a2, b2, c2, d2 >>

\* C22: quarter_round on (a, b, c, d) returns the words of the rule a+=b,
\* d^=a, d=rotl(d,16); c+=d, b^=c, b=rotl(b,12); a+=b, d^=a, d=rotl(d,8);
\* c+=d, b^=c, b=rotl(b,7), additions modulo 2^32 and rotl the cyclic left
\* rotation; on (0x11111111, 0x01020304, 0x9b8d6f43, 0x01234567) it returns
\* (0xea2a92f4, 0xcb1cf8ce, 0x4581472e, 0x5881c4bb).
C22_QuarterRound ==
    \A t \in Thread :
        frame[t].pc = "quarter_round" =>
            /\ frame[t].val = QuarterRule(frame[t].arg)
            /\ frame[t].arg = QuarterTestInput =>
                   frame[t].val = << <<59946, 37620>>, <<51996, 63694>>,
                                     <<17793, 18222>>, <<22657, 50363>> >>

C22_Witness ==
    /\ frame[1].pc = "quarter_round"
    /\ frame[1].arg = QuarterTestInput
    /\ frame[1].val[1] = <<59946, 37620>>
    /\ frame[1].calls = MaxQuarterCalls

(***************************************************************************)
(* sequence<int> on any engine: Engine is a template parameter, and what   *)
(* e.next() returns is up to the engine.                                   *)
(***************************************************************************)
\* the values e.next() may return: as int they are -6..6, so that rand
\* reaches every remainder of the ranges of SeqCalls, of either sign
NextValues ==
    { U64(Zero32, W32(0, n)) : n \in 0..6 }
        \cup { U64(Ones32, W32(65535, 65536 - n)) : n \in 1..6 }

\* the values rand<int>(e, min, max) can return
rand_image(min, max) == { rand_range(v, min, max) : v \in NextValues }

\* sequence<int>(e, min, max, count) up to its loop, e being any engine
sequence_any_begin(t) ==
    /\ frame[t].pc = "idle"
    /\ \E c \in SeqCalls :
         frame' = [frame EXCEPT ![t] =
                     [pc |-> "sequence", e |-> 0, min |-> c[1], max |-> c[2],
                      asked |-> c[3],
                      count |-> sequence_count(c[1], c[2], c[3]),
                      seq |-> <<>>, unique_values |-> {}, parity |-> 0]]
    /\ UNCHANGED <<obj, rd_log, shift_log, ub_shift>>

\* one iteration of "while (seq.size() < count)" in which e.next() returns
\* v; parity is the number of iterations made so far, modulo 2
sequence_any_loop(t, v) ==
    /\ frame[t].pc = "sequence"
    /\ frame[t].e = 0
    /\ Len(frame[t].seq) < frame[t].count
    /\ LET value == rand_range(v, frame[t].min, frame[t].max)
       IN  frame' = [frame EXCEPT
                ![t].unique_values = @ \cup {value},
                ![t].seq = IF value \in frame[t].unique_values
                           THEN @ ELSE Append(@, value),
                ![t].parity = 1 - @]
    /\ UNCHANGED <<obj, rd_log, shift_log, ub_shift>>

\* an iteration in which rand returns the value x of the range [min, max]
sequence_produces(t, x) ==
    /\ frame[t].pc = "sequence"
    /\ frame[t].min <= x
    /\ x <= frame[t].max
    /\ \E v \in NextValues :
         /\ rand_range(v, frame[t].min, frame[t].max) = x
         /\ sequence_any_loop(t, v)

NextAny ==
    \/ sequence_any_begin(1)
    \/ \E v \in NextValues : sequence_any_loop(1, v)
    \/ sequence_return(1)

\* the values of the ranges of SeqCalls
SeqValues == (0 - 3)..5

\* the engine is fair: while the loop runs, every value of the range is
\* eventually produced by rand; a loop that can return does
SpecAnyFair ==
    /\ Init
    /\ [][NextAny]_vars
    /\ \A x \in SeqValues : WF_vars(sequence_produces(1, x))
    /\ WF_vars(sequence_return(1))

C23_ClampedCount ==
    frame[1].pc = "sequence" =>
        /\ frame[1].count <= frame[1].max - frame[1].min + 1
        /\ frame[1].count <= Cardinality(rand_image(frame[1].min, frame[1].max))
        /\ frame[1].count <= frame[1].asked

\* C23: with a fair engine, every call sequence<int>(e, min, max, count)
\* with min <= max returns, also when count is larger than the number of
\* values of the range; inside the loop count is at most max - min + 1 and
\* at most the number of distinct values rand can return.
C23_SequenceTerminates ==
    /\ (frame[1].pc = "sequence") ~> SequenceReturned(1)
    /\ []C23_ClampedCount

C23_Witness ==
    /\ SequenceReturned(1)
    /\ frame[1].asked = 10
    /\ frame[1].max - frame[1].min + 1 = 4
    /\ Len(frame[1].ret) = 4
    /\ frame[1].ret[1] = 3
    /\ {frame[1].ret[i] : i \in 1..4} = 0..3

(***************************************************************************)
(* PCG32.  A uint64_t is the tuple of its 8 bytes, least significant       *)
(* first; products and sums wrap modulo 2^64.                              *)
(***************************************************************************)
Word64 == [1..8 -> Byte]

Zero64B == [i \in 1..8 |-> 0]
One64B == [i \in 1..8 |-> IF i = 1 THEN 1 ELSE 0]

\* MUL = 6364136223846793005 = 0x5851F42D4C957F2D
MUL == <<45, 127, 149, 76, 45, 244, 81, 88>>

\* INC = 1442695040888963407 = 0x14057B7EF767814F
INC == <<79, 129, 103, 247, 126, 123, 5, 20>>

\* the sum of x[i] * y[k - i] over the byte indices 0..i (C++ indices)
mul_col[x \in Word64, y \in Word64, k \in 0..7, i \in (0 - 1)..7] ==
    IF i < 0 THEN 0 ELSE x[i + 1] * y[k - i + 1] + mul_col[x, y, k, i - 1]

\* the bytes k..7 of x * y, carry coming from the bytes below
mul_from[x \in Word64, y \in Word64, k \in 0..8, carry \in Nat] ==
    IF k = 8 THEN <<>>
    ELSE <<(mul_col[x, y, k, k] + carry) % 256>>
            \o mul_from[x, y, k + 1, (mul_col[x, y, k, k] + carry) \div 256]

\* x * y on uint64_t
Mul64(x, y) == mul_from[x, y, 0, 0]

\* the bytes k..7 of x + y
add_from[x \in Word64, y \in Word64, k \in 0..8, carry \in 0..1] ==
    IF k = 8 THEN <<>>
    ELSE <<(x[k + 1] + y[k + 1] + carry) % 256>>
            \o add_from[x, y, k + 1, (x[k + 1] + y[k + 1] + carry) \div 256]

\* x + y on uint64_t
Add64(x, y) == add_from[x, y, 0, 0]

\* x >> 1 on uint64_t
Shr64_1(x) ==
    [i \in 1..8 |->
        (x[i] \div 2) + (IF i < 8 THEN (x[i + 1] % 2) * 128 ELSE 0)]

\* bit i (0..63) of the uint64_t x; 0 above bit 63
Bit64(x, i) == IF i > 63 THEN 0 ELSE Bit(x[(i \div 8) + 1], i % 8)

\* "state * MUL + INC"
PCG32_step(state) == Add64(Mul64(state, MUL), INC)

\* "int rot = state >> 59"
PCG32_rot(state) == state[8] \div 8

\* bit j (0..31) of "value = (uint32_t)((state ^ (state >> 18)) >> 27)"
PCG32_value_bit(state, j) ==
    (Bit64(state, j + 27) + Bit64(state, j + 27 + 18)) % 2

\* the value next32() returns for the state it reads:
\* "rot ? (value >> rot) | (value << (32 - rot)) : value"
PCG32_output(state) ==
    WordOfBits([j \in 0..31 |->
                   PCG32_value_bit(state, (j + PCG32_rot(state)) % 32)])

\* PCG32(seed): "next32(); m_state[0] += seed; next32();" on m_state = {0}
PCG32_seeded(seed) ==
    PCG32_step(Add64(PCG32_step(IEngine(0, 8)), seed))

\* calls made on the PCG32 object that is advanced
MaxPcgCalls == 2

\* calls of next32() made on the PCG32 object that is only stepped
MaxPcgSteps == 5

\* the seeds passed to PCG32(seed): 0 and 42
PcgSeeds == { Zero64B, [i \in 1..8 |-> IF i = 1 THEN 42 ELSE 0] }

\* the deltas passed to advance: 0, 1, 2, 3, 2^63, 2^64 - 2 and 2^64 - 1
PcgDeltas ==
    { Zero64B, One64B, [i \in 1..8 |-> IF i = 1 THEN 2 ELSE 0],
      [i \in 1..8 |-> IF i = 1 THEN 3 ELSE 0],
      [i \in 1..8 |-> IF i = 8 THEN 128 ELSE 0],
      [i \in 1..8 |-> IF i = 1 THEN 254 ELSE 255],
      [i \in 1..8 |-> 255] }

\* thread t is executing no call
Free(t) == frame[t].pc \in {"idle", "returned"}

\* PCG32(seed).  steps is the number of times "state * MUL + INC" has been
\* applied, or asked for through advance, since construction, modulo 2^64
PCG32_ctor(e, seeds) ==
    /\ obj[e].class = "none"
    /\ \E seed \in seeds :
         obj' = [obj EXCEPT ![e] =
                   [class |-> "PCG32", m_state |-> <<PCG32_seeded(seed)>>,
                    m_expanded_key |-> <<>>, ctor |-> "seed", key |-> seed,
                    nonce |-> <<>>, draws |-> 0, out |-> <<>>,
                    steps |-> Zero64B, calls |-> 0, ret |-> <<>>]]
    /\ shift_log' = shift_log \cup {<<18, 64>>, <<27, 64>>, <<59, 64>>}
    /\ UNCHANGED <<rd_log, ub_shift, frame>>

\* the shifts of one next32(): ">> 18", ">> 27", ">> 59" on uint64_t and,
\* when rot is not 0, ">> rot" and "<< (32 - rot)" on uint32_t
PCG32_next32_shifts(state) ==
    {<<18, 64>>, <<27, 64>>, <<59, 64>>}
        \cup (IF PCG32_rot(state) = 0 THEN {}
              ELSE {<<PCG32_rot(state), 32>>, <<32 - PCG32_rot(state), 32>>})

\* e.next32() called by thread t
PCG32_next32(t, e, max) ==
    /\ Free(t)
    /\ obj[e].class = "PCG32"
    /\ obj[e].calls < max
    /\ obj' = [obj EXCEPT
                 ![e].m_state = <<PCG32_step(obj[e].m_state[1])>>,
                 ![e].steps = Add64(@, One64B),
                 ![e].calls = @ + 1,
                 ![e].ret = PCG32_output(obj[e].m_state[1])]
    /\ shift_log' = shift_log \cup PCG32_next32_shifts(obj[e].m_state[1])
    /\ frame' = [frame EXCEPT ![t] = NoFrame]
    /\ UNCHANGED <<rd_log, ub_shift>>

\* e.next() called by thread t: "value = next32(); value <<= 32;
\* value |= next32();"
PCG32_next(t, e, max) ==
    /\ Free(t)
    /\ obj[e].class = "PCG32"
    /\ obj[e].calls < max
    /\ obj' = [obj EXCEPT
                 ![e].m_state = <<PCG32_step(PCG32_step(obj[e].m_state[1]))>>,
                 ![e].steps = Add64(Add64(@, One64B), One64B),
                 ![e].calls = @ + 1,
                 ![e].ret = U64(PCG32_output(obj[e].m_state[1]),
                                PCG32_output(PCG32_step(obj[e].m_state[1])))]
    /\ shift_log' = shift_log \cup {<<32, 64>>}
                        \cup PCG32_next32_shifts(obj[e].m_state[1])
                        \cup PCG32_next32_shifts(PCG32_step(obj[e].m_state[1]))
    /\ frame' = [frame EXCEPT ![t] = NoFrame]
    /\ UNCHANGED <<rd_log, ub_shift>>

\* "delta >>= 1" of advance
advance_shift_stuck(delta) == delta

advance_shift(delta) == Shr64_1(delta)

\* "m_state[0] = acc_mult * m_state[0] + acc_plus" of advance
advance_store_mult_only(acc_mult, state, acc_plus) == Mul64(acc_mult, state)

advance_store(acc_mult, state, acc_plus) ==
    Add64(Mul64(acc_mult, state), acc_plus)

\* e.advance(delta) up to its loop: thread t enters, the locals are set
advance_begin(t, e, deltas, max) ==
    /\ Free(t)
    /\ obj[e].class = "PCG32"
    /\ obj[e].calls < max
    /\ \E delta \in deltas :
         frame' = [frame EXCEPT ![t] =
                     [pc |-> "advance", e |-> e, asked |-> delta,
                      delta |-> delta, cur_mult |-> MUL, cur_plus |-> INC,
                      acc_mult |-> One64B, acc_plus |-> Zero64B,
                      iterations |-> 0]]
    /\ UNCHANGED <<obj, rd_log, shift_log, ub_shift>>

\* one iteration of "while (delta != 0)"
advance_loop(t) ==
    /\ frame[t].pc = "advance"
    /\ frame[t].delta # Zero64B
    /\ frame' = [frame EXCEPT
          ![t].acc_mult = IF frame[t].delta[1] % 2 = 1
                          THEN Mul64(@, frame[t].cur_mult) ELSE @,
          ![t].acc_plus = IF frame[t].delta[1] % 2 = 1
                          THEN Add64(Mul64(@, frame[t].cur_mult),
                                     frame[t].cur_plus)
                          ELSE @,
          ![t].cur_plus = Mul64(Add64(frame[t].cur_mult, One64B), @),
          ![t].cur_mult = Mul64(@, @),
          ![t].delta = advance_shift(@),
          ![t].iterations = @ + 1]
    /\ shift_log' = shift_log \cup {<<1, 64>>}
    /\ UNCHANGED <<obj, rd_log, ub_shift>>

\* the loop has ended: the store into m_state[0], and the return
advance_finish(t) ==
    /\ frame[t].pc = "advance"
    /\ frame[t].delta = Zero64B
    /\ obj' = [obj EXCEPT
                 ![frame[t].e].m_state =
                     <<advance_store(frame[t].acc_mult, @[1],
                                     frame[t].acc_plus)>>,
                 ![frame[t].e].steps = Add64(@, frame[t].asked),
                 ![frame[t].e].calls = @ + 1,
                 ![frame[t].e].ret = <<>>]
    /\ frame' = [frame EXCEPT ![t] =
                   [pc |-> "returned", op |-> "advance", e |-> frame[t].e,
                    asked |-> frame[t].asked,
                    iterations |-> frame[t].iterations,
                    pre |-> obj[frame[t].e].m_state[1]]]
    /\ UNCHANGED <<rd_log, shift_log, ub_shift>>

\* no shift of PCG32 is over-wide: ub_shift plays no part
InitPcg == Init /\ ub_shift = "wrap"

\* Two PCG32 objects used by one thread: object 1 is stepped and advanced,
\* object 2 is only stepped with next32().
NextPcg ==
    \/ \E e \in Inst : PCG32_ctor(e, PcgSeeds)
    \/ PCG32_next32(1, 2, MaxPcgSteps)
    \/ PCG32_next32(1, 1, MaxPcgCalls)
    \/ PCG32_next(1, 1, MaxPcgCalls)
    \/ advance_begin(1, 1, PcgDeltas, MaxPcgCalls)
    \/ advance_loop(1)
    \/ advance_finish(1)

SpecPcg == InitPcg /\ [][NextPcg]_vars

\* One PCG32 object, stepped and advanced by one thread.
NextAdvance ==
    \/ PCG32_ctor(1, PcgSeeds)
    \/ PCG32_next32(1, 1, MaxPcgCalls)
    \/ PCG32_next(1, 1, MaxPcgCalls)
    \/ advance_begin(1, 1, PcgDeltas, MaxPcgCalls)
    \/ advance_loop(1)
    \/ advance_finish(1)

\* the thread that is inside advance keeps running
SpecPcgFair ==
    /\ InitPcg
    /\ [][NextAdvance]_vars
    /\ WF_vars(advance_loop(1))
    /\ WF_vars(advance_finish(1))

\* thread t has returned from advance
AdvanceReturned(t) == frame[t].pc = "returned" /\ frame[t].op = "advance"

C24_LoopBound ==
    /\ frame[1].pc = "advance" => frame[1].iterations <= 64
    /\ AdvanceReturned(1) =>
          /\ frame[1].iterations <= 64
          /\ frame[1].asked = Zero64B =>
                /\ frame[1].iterations = 0
                /\ obj[frame[1].e].m_state[1] = frame[1].pre

\* every iteration shifts delta right by one
C24_LoopShifts ==
    (frame[1].pc = "advance" /\ frame'[1].pc = "advance"
        /\ frame'[1].iterations # frame[1].iterations) =>
            /\ frame'[1].iterations = frame[1].iterations + 1
            /\ frame'[1].delta = Shr64_1(frame[1].delta)

\* C24: every call advance(delta) returns, after at most 64 iterations of
\* its loop, each of which shifts delta right by one; advance(0) makes no
\* iteration and leaves m_state unchanged.
C24_AdvanceTerminates ==
    /\ (frame[1].pc = "advance") ~> AdvanceReturned(1)
    /\ []C24_LoopBound
    /\ [][C24_LoopShifts]_vars

C24_Witness ==
    /\ AdvanceReturned(1)
    /\ frame[1].asked = [i \in 1..8 |-> 255]
    /\ frame[1].iterations = 64
    /\ obj[1].m_state[1] # frame[1].pre

\* C25: two PCG32 objects built from one seed hold the same state whenever
\* the same number of steps state := state * MUL + INC has been applied to
\* them, counting delta steps for advance(delta), 1 for next32() and 2 for
\* next(), modulo 2^64: advance(delta) is delta calls of next32(),
\* advance(a) then advance(b) is advance(a + b), next() is advance(2).
C25_JumpAhead ==
    \A e, f \in Inst :
        (/\ obj[e].class = "PCG32"
         /\ obj[f].class = "PCG32"
         /\ obj[e].key = obj[f].key
         /\ obj[e].steps = obj[f].steps) =>
            obj[e].m_state = obj[f].m_state

C25_Witness ==
    /\ AdvanceReturned(1)
    /\ frame[1].asked = [i \in 1..8 |-> IF i = 1 THEN 3 ELSE 0]
    /\ obj[1].calls = 2
    /\ obj[2].class = "PCG32"
    /\ obj[2].key = obj[1].key
    /\ obj[2].calls = MaxPcgSteps
    /\ obj[2].steps = obj[1].steps
    /\ obj[2].m_state = obj[1].m_state

(***************************************************************************)
(* The block transform on more buffers: the local buffer of next128() is   *)
(* not initialized, so process_block may be handed any 16 bytes.           *)
(***************************************************************************)
MaxBlockCalls == 2

\* buffers that differ from one another in one byte, or in the place of one
\* byte, and the 0xCC fill
BlockInputs ==
    { ZeroBlock, [i \in 1..16 |-> 204] }
        \cup { [ZeroBlock EXCEPT ![i] = v] : i \in {1, 2, 6, 16}, v \in {1, 255} }

\* AESCTR::next128() on object e, finding one of the given buffers
AESCTR_next128_on(e, buffers, max) ==
    /\ obj[e].class = "AESCTR"
    /\ Len(obj[e].out) < max
    /\ \E buffer \in buffers :
         LET processed == process_block(buffer, obj[e].m_expanded_key)
         IN  obj' = [obj EXCEPT
                       ![e].m_state = increment_counter(obj[e].m_state),
                       ![e].out = Append(@,
                          [op |-> "next128", pre |-> obj[e].m_state,
                           arg |-> buffer, block |-> processed,
                           val |-> AESCTR_pair(processed)])]
    /\ UNCHANGED <<rd_log, shift_log, ub_shift, frame>>

NextBlock ==
    \/ AESCTR_ctor_key(1, AESKeys, {ZeroBlock})
    \/ AESCTR_next128_on(1, BlockInputs, MaxBlockCalls)

SpecBlock == Init /\ [][NextBlock]_vars

\* the position (0..15) ShiftRows reads for position p: row p mod 4 is
\* shifted cyclically by p mod 4 columns
ShiftRowsSource(p) == 4 * (((p \div 4) + (p % 4)) % 4) + (p % 4)

\* a block whose 16 bytes are pairwise different
ProbeBlock == [i \in 1..16 |-> 15 * i + 3]

C26_ShiftRowsPermutes ==
    /\ { ShiftRowsSource(p) : p \in 0..15 } = 0..15
    /\ \A p \in {0, 4, 8, 12} : ShiftRowsSource(p) = p
    /\ \A p \in 0..15 :
          shift_rows[ProbeBlock][p + 1] = ProbeBlock[ShiftRowsSource(p) + 1]

C26_SboxPermutes ==
    /\ Len(SBOX) = 256
    /\ { SBOX[i] : i \in 1..256 } = 0..255

\* C26: for a fixed schedule the block transform maps distinct 16-byte
\* inputs to distinct outputs; its ShiftRows step moves the byte of
\* position 4((c + r) mod 4) + r to position 4c + r (rows 1, 2, 3 shifted by
\* 1, 2, 3 columns, positions 0, 4, 8, 12 fixed), a permutation of the 16
\* positions; SBOX is a permutation of 0..255.
C26_BlockBijection ==
    /\ C26_ShiftRowsPermutes
    /\ C26_SboxPermutes
    /\ \A e \in Inst :
          obj[e].class = "AESCTR" =>
            /\ \A k \in 1..Len(obj[e].out) :
                  \A p \in 0..15 :
                      obj[e].out[k].block[p + 1] =
                          Xor8(SBOX[Xor8(obj[e].out[k].arg[ShiftRowsSource(p) + 1],
                                         obj[e].m_expanded_key[ShiftRowsSource(p) + 1])
                                    + 1],
                               obj[e].m_expanded_key[16 + p + 1])
            /\ \A j, k \in 1..Len(obj[e].out) :
                  obj[e].out[j].arg # obj[e].out[k].arg =>
                      obj[e].out[j].block # obj[e].out[k].block

C26_Witness ==
    /\ obj[1].class = "AESCTR"
    /\ obj[1].key # ZeroBlock
    /\ Len(obj[1].out) = MaxBlockCalls
    /\ obj[1].out[1].arg = [ZeroBlock EXCEPT ![2] = 1]
    /\ obj[1].out[2].arg = [ZeroBlock EXCEPT ![6] = 1]
    /\ obj[1].out[1].block # obj[1].out[2].block

(***************************************************************************)
(* Entropy-seeded AESCTR.                                                  *)
(***************************************************************************)
\* object e is an AESCTR engine just built by AESCTR(rd)
EntropySeededAESCTR(e) ==
    /\ obj[e].class = "AESCTR"
    /\ obj[e].ctor = "entropy"
    /\ obj[e].out = <<>>

\* the four bytes of the 32-bit word w, least significant first
BytesLSB(w) == << w[2] % 256, w[2] \div 256, w[1] % 256, w[1] \div 256 >>

\* the four bytes of the 32-bit word w, most significant first
BytesMSB(w) == << w[1] \div 256, w[1] % 256, w[2] \div 256, w[2] % 256 >>

\* the key the draws 5..8 of the log form
DrawnKey == BytesMSB(rd_log[5]) \o BytesMSB(rd_log[6])
                \o BytesMSB(rd_log[7]) \o BytesMSB(rd_log[8])

\* C27: AESCTR(rd) draws exactly 8 words, in this order: draws 1..4 are
\* stored in counter bytes 0..3, 4..7, 8..11, 12..15; draws 5..8 form the
\* key, draw 4 + j giving key bytes 4(j-1)..4(j-1)+3 most significant byte
\* first; the schedule is the expansion of that key.
C27_EightDrawsInOrder ==
    \A e \in Inst :
        EntropySeededAESCTR(e) =>
            /\ obj[e].draws = 8
            /\ Len(rd_log) = 8
            /\ \A i \in 1..4 :
                  SubSeq(obj[e].m_state, 4 * (i - 1) + 1, 4 * i)
                      = BytesLSB(rd_log[i])
            /\ SubSeq(obj[e].m_expanded_key, 1, 16) = DrawnKey
            /\ obj[e].m_expanded_key = key_expansion(DrawnKey, ub_shift)

C27_Witness ==
    /\ EntropySeededAESCTR(1)
    /\ Len(rd_log) = 8
    /\ rd_log[1] # rd_log[5]
    /\ rd_log[5][1] \div 256 = 255
    /\ obj[1].m_expanded_key[1] = 255
    /\ obj[1].m_state[1] = rd_log[1][2] % 256

====
